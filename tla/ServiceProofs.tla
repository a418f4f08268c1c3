---------------------------- MODULE ServiceProofs ----------------------------
(***************************************************************************)
(* Proofs about the event spool, the webhook deliveries, the directory of  *)
(* blobs, and what servers claim of each other, the ticks of a schedule    *)
(* and the connection to a reverse runner, as parts of the background      *)
(* services: for any number of events, nodes, workers, attempts, sessions, *)
(* requests, packages, contents, servers, crashes and faults.              *)
(***************************************************************************)
EXTENDS Background, FiniteSetTheorems, TLAPS

\* The assumption of each component, on its own.
LEMMA SpoolAssumed == Spool!SpoolAssumption
    BY BackgroundAssumption

LEMMA DeliveryAssumed == Delivery!DeliveryAssumption
    BY BackgroundAssumption

LEMMA BlobsAssumed == Blobs!BlobAssumption
    BY BackgroundAssumption

----------------------------------------------------------------------------
(* The spool: its inductive invariant.                                     *)

\* Whoever works on an event has its claim, or the event was stolen; two of them
\* do so only with a stolen one.
SpoolClaims ==
    /\ \A n \in Nodes, e \in Events : cur[n] = e /\ file[e] # "claimed" => stolen[e]
    /\ \A m, n \in Nodes, e \in Events : cur[m] = e /\ cur[n] = e /\ m # n => stolen[e]
    /\ \A e \in Events : stolen[e] => old[e]

\* A claim about to be removed was handled.
SpoolRemovals ==
    \A n \in Nodes, e \in Events :
        cur[n] = e /\ npc[n] = "remove" => handled[e] > 0 \/ stolen[e]

\* The event may be started a second time.
Again(e) == old[e] /\ (stolen[e] \/ crashes > 0)

\* An event that was started is not on offer, nobody is about to start it, and a
\* claim of it that nobody holds is left from a crash.
SpoolStarts ==
    \A e \in Events :
        /\ ~Again(e) =>
             /\ started[e] <= 1
             /\ file[e] \in {"unwritten", "json"} => started[e] = 0
             /\ \A n \in Nodes : cur[n] = e /\ npc[n] = "read" => started[e] = 0
        /\ file[e] = "claimed" /\ started[e] > 0 /\ crashes = 0 => \E n \in Nodes : cur[n] = e

SpoolInv == Spool!TypeOK /\ SpoolClaims /\ SpoolRemovals /\ SpoolStarts /\ NotLost

LEMMA SpoolInit == BackgroundInit => SpoolInv
<1> SUFFICES ASSUME Spool!Init PROVE SpoolInv
    BY DEF BackgroundInit
<1> USE DEF Spool!Init, Spool!NoEvent
<1>1. Spool!TypeOK
    BY DEF Spool!TypeOK
<1>2. SpoolClaims /\ SpoolRemovals /\ NotLost
    BY SpoolAssumed
    DEF SpoolClaims, SpoolRemovals, NotLost, Spool!NotLost, Spool!SpoolAssumption
<1>3. SpoolStarts
    BY DEF SpoolStarts
<1> QED
    BY <1>1, <1>2, <1>3 DEF SpoolInv

LEMMA SpoolSteps == [BackgroundNext]_vars => [Spool!Next]_spoolVars
    BY DEF BackgroundNext, Others, vars

LEMMA SpoolTypeStep ==
    ASSUME Spool!TypeOK, Spool!Next
    PROVE  Spool!TypeOK'
<1> USE SpoolAssumed DEF Spool!TypeOK, Spool!NoEvent, Spool!SpoolAssumption
<1>1. ASSUME NEW e \in Events, Spool!WriteSpool(e) \/ Spool!Age(e) PROVE Spool!TypeOK'
    BY <1>1 DEF Spool!WriteSpool, Spool!Age
<1>2. ASSUME NEW n \in Nodes, NEW e \in Events, Spool!ReclaimStale(n, e) \/ Spool!Claim(n, e)
      PROVE  Spool!TypeOK'
    BY <1>2 DEF Spool!ReclaimStale, Spool!Claim
<1>3. ASSUME NEW n \in Nodes, Spool!Read(n) \/ Spool!Handle(n) PROVE Spool!TypeOK'
  <2>1. cur[n] \in Events /\ started[cur[n]] + 1 \in Nat /\ handled[cur[n]] + 1 \in Nat
      BY <1>3 DEF Spool!Read, Spool!Handle
  <2> QED
      BY <1>3, <2>1 DEF Spool!Read, Spool!Handle
<1>4. ASSUME NEW n \in Nodes, Spool!Remove(n) \/ Spool!Crash(n) PROVE Spool!TypeOK'
    BY <1>4 DEF Spool!Remove, Spool!Crash
<1> QED
    BY <1>1, <1>2, <1>3, <1>4 DEF Spool!Next, Spool!Drain

LEMMA SpoolInvStep ==
    ASSUME SpoolInv, Spool!Next
    PROVE  (SpoolClaims /\ SpoolRemovals /\ SpoolStarts /\ NotLost)'
<1> USE SpoolAssumed
    DEF SpoolInv, Spool!TypeOK, Spool!NoEvent, Spool!SpoolAssumption, NotLost, Spool!NotLost,
        Again
<1>1. ASSUME NEW e \in Events, Spool!WriteSpool(e) \/ Spool!Age(e)
      PROVE  (SpoolClaims /\ SpoolRemovals /\ SpoolStarts /\ NotLost)'
    BY <1>1 DEF Spool!WriteSpool, Spool!Age, SpoolClaims, SpoolRemovals, SpoolStarts
<1>2. ASSUME NEW n \in Nodes, NEW e \in Events, Spool!ReclaimStale(n, e)
      PROVE  (SpoolClaims /\ SpoolRemovals /\ SpoolStarts /\ NotLost)'
  <2>1. stolen' = [stolen EXCEPT ![e] = @ \/ \E m \in Nodes : cur[m] = e]
      BY <1>2 DEF Spool!ReclaimStale
  <2> QED
      BY <1>2, <2>1 DEF Spool!ReclaimStale, SpoolClaims, SpoolRemovals, SpoolStarts
<1>3. ASSUME NEW n \in Nodes, NEW e \in Events, Spool!Claim(n, e)
      PROVE  (SpoolClaims /\ SpoolRemovals /\ SpoolStarts /\ NotLost)'
  <2>1. SpoolClaims'
      BY <1>3 DEF Spool!Claim, SpoolClaims
  <2>2. (SpoolRemovals /\ NotLost)'
      BY <1>3 DEF Spool!Claim, SpoolRemovals
  <2>3. SpoolStarts'
      BY <1>3 DEF Spool!Claim, SpoolStarts
  <2> QED
      BY <2>1, <2>2, <2>3
<1>4. ASSUME NEW n \in Nodes, Spool!Read(n)
      PROVE  (SpoolClaims /\ SpoolRemovals /\ SpoolStarts /\ NotLost)'
  <2>1. cur[n] \in Events
      BY <1>4 DEF Spool!Read
  <2>2. (SpoolClaims /\ SpoolRemovals /\ NotLost)'
      BY <1>4, <2>1 DEF Spool!Read, SpoolClaims, SpoolRemovals
  <2>3. SpoolStarts'
      BY <1>4, <2>1 DEF Spool!Read, SpoolStarts, SpoolClaims
  <2> QED
      BY <2>2, <2>3
<1>5. ASSUME NEW n \in Nodes, Spool!Handle(n)
      PROVE  (SpoolClaims /\ SpoolRemovals /\ SpoolStarts /\ NotLost)'
  <2>1. cur[n] \in Events
      BY <1>5 DEF Spool!Handle
  <2>2. (SpoolClaims /\ SpoolRemovals /\ NotLost)'
      BY <1>5, <2>1 DEF Spool!Handle, SpoolClaims, SpoolRemovals
  <2>3. SpoolStarts'
      BY <1>5, <2>1 DEF Spool!Handle, SpoolStarts
  <2> QED
      BY <2>2, <2>3
<1>6. ASSUME NEW n \in Nodes, Spool!Remove(n)
      PROVE  (SpoolClaims /\ SpoolRemovals /\ SpoolStarts /\ NotLost)'
  <2>1. cur[n] \in Events
      BY <1>6 DEF Spool!Remove
  <2>2. (SpoolClaims /\ SpoolRemovals /\ NotLost)'
      BY <1>6, <2>1 DEF Spool!Remove, SpoolClaims, SpoolRemovals
  <2>3. SpoolStarts'
      BY <1>6, <2>1 DEF Spool!Remove, SpoolStarts
  <2> QED
      BY <2>2, <2>3
<1>7. ASSUME NEW n \in Nodes, Spool!Crash(n)
      PROVE  (SpoolClaims /\ SpoolRemovals /\ SpoolStarts /\ NotLost)'
    BY <1>7 DEF Spool!Crash, SpoolClaims, SpoolRemovals, SpoolStarts
<1> QED
    BY <1>1, <1>2, <1>3, <1>4, <1>5, <1>6, <1>7 DEF Spool!Next, Spool!Drain

LEMMA SpoolInvariance == BackgroundSpec => []SpoolInv
<1>1. SpoolInv /\ [BackgroundNext]_vars => SpoolInv'
  <2> SUFFICES ASSUME SpoolInv, [Spool!Next]_spoolVars PROVE SpoolInv'
      BY SpoolSteps
  <2>1. CASE Spool!Next
      BY <2>1, SpoolTypeStep, SpoolInvStep DEF SpoolInv
  <2>2. CASE UNCHANGED spoolVars
      BY <2>2 DEF SpoolInv, SpoolClaims, SpoolRemovals, SpoolStarts, Again, NotLost,
                  Spool!NotLost, Spool!TypeOK, spoolVars
  <2> QED
      BY <2>1, <2>2
<1> QED
    BY SpoolInit, <1>1, PTL DEF BackgroundSpec

\* An event leaves the spool only after every handler returned for it: a claim is
\* removed after Handle, or after its event was stolen (processClaimed).
THEOREM EventsAreNotLost == BackgroundSpec => []NotLost
<1>1. SpoolInv => NotLost
    BY DEF SpoolInv
<1> QED
    BY SpoolInvariance, <1>1, PTL

\* An event is started twice only when it is old and its node crashed or lost its
\* claim alive: the rename gives it to one node at a time (webhooks.go:165-167).
THEOREM EventsAreHandledOnce == BackgroundSpec => []HandledOnce
<1>1. SpoolInv => HandledOnce
    BY DEF SpoolInv, SpoolStarts, Again, HandledOnce, Spool!HandledOnce, Spool!TypeOK
<1> QED
    BY SpoolInvariance, <1>1, PTL

----------------------------------------------------------------------------
(* The deliveries: their inductive invariant.                              *)

\* The types, but for the attempts of a pass, which row.attempts bounds.
RowTypes ==
    dRow \in [status : {"none", "retry", "success", "failed"}, attempts : Nat,
              next : {"none", "later", "due"}]
WorkerTypes ==
    worker \in [Deliverers -> [pc : {"idle", "post", "record"}, attempts : Delivery!Tries,
                               ok : BOOLEAN]]
NodeTypes  == node \in [Nodes -> [pc : {"idle", "defer", "enqueue"}, attempts : Nat]]
TaskTypes  == tasks \in [Delivery!Tries -> Nat]
CountTypes == dHook \in BOOLEAN /\ posts \in Nat /\ overlaps \in Nat /\ dFaults \in Nat
DeliveryTypes == RowTypes /\ WorkerTypes /\ NodeTypes /\ TaskTypes /\ CountTypes

Queued == \E a \in Delivery!Tries : tasks[a] > 0
AtWork == \E w \in Deliverers : worker[w].pc # "idle"
Passes == \E n \in Nodes : node[n].pc # "idle"

\* At most one task of the delivery is queued, at work or about to be queued.
OneTask ==
    /\ \A a, b \in Delivery!Tries : tasks[a] <= 1 /\ (tasks[a] > 0 /\ tasks[b] > 0 => a = b)
    /\ \A v, w \in Deliverers : worker[v].pc # "idle" /\ worker[w].pc # "idle" => v = w
    /\ \A m, n \in Nodes : node[m].pc # "idle" /\ node[n].pc # "idle" => m = n
    /\ Queued => ~AtWork /\ ~Passes
    /\ AtWork => ~Passes

\* Nothing is done for a delivery with an outcome, a due one waits for a pass, and a
\* pass that outlives the webhook finds no row.
RowRests ==
    /\ dRow.status \in {"success", "failed"} => ~Queued /\ ~AtWork /\ ~Passes
    /\ dRow.status = "retry" /\ dRow.next = "due" =>
         ~Queued /\ ~AtWork /\ \A n \in Nodes : node[n].pc # "enqueue"
    /\ ~dHook /\ Passes => dRow.status = "none"

\* A task that says a attempts were made says what the row says.
Carries(a) == IF a = 0 THEN dRow = Delivery!NoRow ELSE dRow.status = "retry" /\ dRow.attempts = a

\* After a attempts one more may be made.
Leaves(a) == a < MaxAttempts /\ posts <= a + dFaults

\* Whoever is to post has an attempt left.
PostsCounted ==
    /\ posts <= MaxAttempts + dFaults
    /\ \A w \in Deliverers : worker[w].pc = "post" => Leaves(worker[w].attempts)
    /\ dHook =>
         /\ dRow.status = "retry" =>
              /\ dRow.attempts \in 1 .. MaxAttempts - 1
              /\ ~AtWork => Leaves(dRow.attempts)
         /\ \A a \in Delivery!Tries : tasks[a] > 0 => Leaves(a) /\ Carries(a)
         /\ \A w \in Deliverers : worker[w].pc # "idle" => Carries(worker[w].attempts)
         /\ \A w \in Deliverers :
              worker[w].pc = "record" => posts <= worker[w].attempts + 1 + dFaults
         /\ \A n \in Nodes : node[n].pc # "idle" =>
              Leaves(node[n].attempts) /\ Carries(node[n].attempts)

DeliveryInv == DeliveryTypes /\ (overlaps = 0 => OneTask /\ RowRests /\ PostsCounted)

LEMMA DeliveryInit == BackgroundInit => DeliveryInv
<1> SUFFICES ASSUME Delivery!Init PROVE DeliveryInv
    BY DEF BackgroundInit
<1>0. 0 \in Delivery!Tries
    BY DeliveryAssumed DEF Delivery!DeliveryAssumption, Delivery!Tries
<1> USE DEF Delivery!Init, Delivery!NoRow, Delivery!Idle
<1>1. DeliveryTypes
    BY <1>0 DEF DeliveryTypes, RowTypes, WorkerTypes, NodeTypes, TaskTypes, CountTypes
<1>2. OneTask /\ RowRests
    BY DEF OneTask, RowRests, Queued, AtWork, Passes
<1>3. PostsCounted
    BY DeliveryAssumed DEF PostsCounted, Leaves, Carries, Delivery!DeliveryAssumption
<1> QED
    BY <1>1, <1>2, <1>3 DEF DeliveryInv

LEMMA DeliverySteps == [BackgroundNext]_vars => [Delivery!Next]_deliveryVars
    BY DEF BackgroundNext, Others, vars

\* What Post makes of its worker.
LEMMA PostWorker ==
    ASSUME DeliveryTypes, NEW w \in Deliverers, Delivery!Post(w)
    PROVE  \E q \in [pc : {"record"}, attempts : Delivery!Tries, ok : BOOLEAN] :
             q.attempts = worker[w].attempts /\ worker' = [worker EXCEPT ![w] = q]
<1>1. PICK ok \in BOOLEAN : worker' = [worker EXCEPT ![w].pc = "record", ![w].ok = ok]
    BY DEF Delivery!Post
<1>2. PICK r : r = worker[w]
    OBVIOUS
<1>3. r \in [pc : {"idle", "post", "record"}, attempts : Delivery!Tries, ok : BOOLEAN]
    BY <1>2 DEF DeliveryTypes, WorkerTypes
<1>4. PICK q : q = [r EXCEPT !.pc = "record", !.ok = ok]
    OBVIOUS
<1>5. q \in [pc : {"record"}, attempts : Delivery!Tries, ok : BOOLEAN] /\ q.attempts = r.attempts
    BY <1>3, <1>4
<1>6. worker' = [worker EXCEPT ![w] = q]
    BY <1>1, <1>2, <1>4 DEF DeliveryTypes, WorkerTypes
<1> QED
    BY <1>2, <1>5, <1>6

LEMMA DeliveryTypesStep ==
    ASSUME DeliveryTypes, Delivery!Next
    PROVE  DeliveryTypes'
<1> USE DEF DeliveryTypes, RowTypes, WorkerTypes, NodeTypes, TaskTypes, CountTypes,
            Delivery!NoRow, Delivery!Idle, Delivery!UpdateDelivery, Delivery!OverlapIf
<1>0. 0 \in Delivery!Tries
    BY DeliveryAssumed DEF Delivery!DeliveryAssumption, Delivery!Tries
<1>1. ASSUME NEW w \in Deliverers, Delivery!Take(w) PROVE DeliveryTypes'
  <2>1. PICK a \in Delivery!Tries :
          /\ tasks' = [tasks EXCEPT ![a] = @ - 1] /\ tasks[a] > 0
          /\ \/ /\ worker' = [worker EXCEPT ![w] = [pc |-> "post", attempts |-> a, ok |-> FALSE]]
                /\ UNCHANGED dRow
             \/ (Delivery!UpdateDelivery("failed", "none") \/ UNCHANGED dRow) /\ UNCHANGED worker
      BY <1>1 DEF Delivery!Take
  <2>2. TaskTypes'
      BY <2>1
  <2>3. WorkerTypes'
    <3>1. CASE worker' = [worker EXCEPT ![w] = [pc |-> "post", attempts |-> a, ok |-> FALSE]]
        BY <3>1
    <3>2. CASE UNCHANGED worker
        BY <3>2
    <3> QED
        BY <2>1, <3>1, <3>2
  <2>4. RowTypes'
      BY <2>1
  <2> QED
      BY <1>1, <2>2, <2>3, <2>4 DEF Delivery!Take
<1>2. ASSUME NEW w \in Deliverers, Delivery!Post(w) PROVE DeliveryTypes'
  <2>1. PICK q \in [pc : {"record"}, attempts : Delivery!Tries, ok : BOOLEAN] :
          worker' = [worker EXCEPT ![w] = q]
      BY <1>2, PostWorker
  <2>2. WorkerTypes'
      BY <2>1
  <2> QED
      BY <1>2, <2>2 DEF Delivery!Post
<1>3. ASSUME NEW w \in Deliverers, Delivery!Record(w) PROVE DeliveryTypes'
  <2>1. WorkerTypes'
      BY <1>0, <1>3 DEF Delivery!Record
  <2>2. RowTypes'
      BY <1>3 DEF Delivery!Record
  <2> QED
      BY <1>3, <2>1, <2>2 DEF Delivery!Record
<1>4. ASSUME NEW n \in Nodes, Delivery!ReadDue(n) PROVE DeliveryTypes'
  <2>1. NodeTypes' /\ RowTypes'
      BY <1>4 DEF Delivery!ReadDue
  <2>2. CountTypes'
      BY <1>4 DEF Delivery!ReadDue
  <2> QED
      BY <1>4, <2>1, <2>2 DEF Delivery!ReadDue
<1>5. ASSUME NEW n \in Nodes, Delivery!Defer(n) PROVE DeliveryTypes'
  <2>1. NodeTypes' /\ RowTypes'
      BY <1>5 DEF Delivery!Defer
  <2> QED
      BY <1>5, <2>1 DEF Delivery!Defer
<1>6. ASSUME NEW n \in Nodes, Delivery!Enqueue(n) PROVE DeliveryTypes'
  <2>1. NodeTypes' /\ TaskTypes'
      BY <1>6 DEF Delivery!Enqueue
  <2>2. CountTypes'
      BY <1>6 DEF Delivery!Enqueue
  <2> QED
      BY <1>6, <2>1, <2>2 DEF Delivery!Enqueue
<1>7. CASE Delivery!Due
  <2>1. RowTypes' /\ CountTypes'
      BY <1>7 DEF Delivery!Due
  <2> QED
      BY <1>7, <2>1 DEF Delivery!Due
<1>8. CASE Delivery!DeleteWebhook
    BY <1>8 DEF Delivery!DeleteWebhook
<1>9. CASE Delivery!Crash
  <2>1. WorkerTypes' /\ NodeTypes' /\ TaskTypes'
      BY <1>0, <1>9 DEF Delivery!Crash
  <2> QED
      BY <1>9, <2>1 DEF Delivery!Crash
<1> QED
    BY <1>1, <1>2, <1>3, <1>4, <1>5, <1>6, <1>7, <1>8, <1>9
    DEF Delivery!Next, Delivery!Worker, Delivery!Pass

\* While nothing overlaps: the three parts, action by action.
DeliverySafe == OneTask /\ RowRests /\ PostsCounted

LEMMA TakeSafe ==
    ASSUME DeliveryTypes, DeliverySafe, NEW w \in Deliverers, Delivery!Take(w)
    PROVE  DeliverySafe'
<1> USE DEF DeliverySafe, DeliveryTypes, RowTypes, WorkerTypes, NodeTypes, TaskTypes, CountTypes,
            Queued, AtWork, Passes
<1>1. PICK a \in Delivery!Tries :
        /\ tasks[a] > 0 /\ tasks' = [tasks EXCEPT ![a] = @ - 1] /\ worker[w].pc = "idle"
        /\ IF dHook
           THEN /\ worker' = [worker EXCEPT ![w] = [pc |-> "post", attempts |-> a, ok |-> FALSE]]
                /\ UNCHANGED dRow
           ELSE /\ IF a > 0 THEN Delivery!UpdateDelivery("failed", "none") ELSE UNCHANGED dRow
                /\ UNCHANGED worker
    BY DEF Delivery!Take
<1>2. UNCHANGED <<dHook, node, posts, overlaps, dFaults>>
    BY DEF Delivery!Take
<1>3. /\ ~AtWork /\ ~Passes /\ tasks[a] = 1 /\ tasks'[a] = 0
      /\ \A b \in Delivery!Tries : tasks'[b] = 0
    BY <1>1 DEF OneTask
<1>4. CASE dHook
  <2>1. /\ worker'[w].pc = "post" /\ worker'[w].attempts = a
        /\ \A v \in Deliverers : v # w => worker'[v].pc = "idle"
      BY <1>1, <1>3, <1>4
  <2>2. OneTask'
      BY <1>2, <1>3, <2>1 DEF OneTask
  <2>3. dRow.status \notin {"success", "failed"} /\ ~(dRow.status = "retry" /\ dRow.next = "due")
      BY <1>1 DEF RowRests
  <2>4. RowRests'
      BY <1>1, <1>2, <1>4, <2>3 DEF RowRests
  <2>5. Leaves(a) /\ Carries(a)
      BY <1>1, <1>4 DEF PostsCounted
  <2>6. PostsCounted'
      BY <1>1, <1>2, <1>3, <1>4, <2>1, <2>5 DEF PostsCounted, Leaves, Carries
  <2> QED
      BY <2>2, <2>4, <2>6
<1>5. CASE ~dHook
  <2>1. ~Queued' /\ ~AtWork' /\ ~Passes'
      BY <1>1, <1>2, <1>3, <1>5
  <2>2. OneTask'
      BY <1>3, <2>1 DEF OneTask
  <2>3. RowRests'
      BY <1>2, <1>3, <2>1 DEF RowRests
  <2>4. PostsCounted'
      BY <1>1, <1>2, <1>5, <2>1 DEF PostsCounted, Leaves
  <2> QED
      BY <2>2, <2>3, <2>4
<1> QED
    BY <1>4, <1>5

LEMMA PostSafe ==
    ASSUME DeliveryTypes, DeliverySafe, NEW w \in Deliverers, Delivery!Post(w)
    PROVE  DeliverySafe'
<1> USE DEF DeliverySafe, DeliveryTypes, RowTypes, WorkerTypes, NodeTypes, TaskTypes, CountTypes,
            Queued, AtWork, Passes
<1>1. PICK q \in [pc : {"record"}, attempts : Delivery!Tries, ok : BOOLEAN] :
        q.attempts = worker[w].attempts /\ worker' = [worker EXCEPT ![w] = q]
    BY PostWorker
<1>2. /\ worker[w].pc = "post" /\ posts' = posts + 1
      /\ UNCHANGED <<dHook, dRow, tasks, node, overlaps, dFaults>>
    BY DEF Delivery!Post
<1>3. /\ worker'[w].pc = "record" /\ worker'[w].attempts = worker[w].attempts
      /\ \A v \in Deliverers : v # w => worker'[v] = worker[v] /\ worker[v].pc = "idle"
      /\ ~Queued /\ ~Passes
    BY <1>1, <1>2 DEF OneTask
<1>4. OneTask'
    BY <1>2, <1>3 DEF OneTask
<1>5. RowRests'
    BY <1>2, <1>3 DEF RowRests
<1>6. Leaves(worker[w].attempts)
    BY <1>2 DEF PostsCounted
<1>7. /\ posts' <= MaxAttempts + dFaults'
      /\ posts' <= worker'[w].attempts + 1 + dFaults'
    BY <1>2, <1>3, <1>6, DeliveryAssumed
    DEF Leaves, Delivery!DeliveryAssumption, Delivery!Tries
<1>8. dHook => Carries(worker[w].attempts)
    BY <1>2 DEF PostsCounted
<1>9. PostsCounted'
  <2>1. \A v \in Deliverers : worker'[v].pc # "post"
      BY <1>3
  <2>2. AtWork' /\ ~Queued' /\ ~Passes'
      BY <1>2, <1>3
  <2>3. \A v \in Deliverers : worker'[v].pc # "idle" => v = w
      BY <1>3
  <2>4. dHook => Carries(worker[w].attempts)'
      BY <1>2, <1>3, <1>8 DEF Carries
  <2>5. dHook /\ dRow.status = "retry" => dRow.attempts \in 1 .. MaxAttempts - 1
      BY DEF PostsCounted
  <2>6. \A a \in Delivery!Tries : ~(tasks'[a] > 0)
      BY <2>2
  <2>7. \A m \in Nodes : node'[m].pc = "idle"
      BY <2>2
  <2> QED
      BY <1>2, <1>3, <1>7, <2>1, <2>2, <2>3, <2>4, <2>5, <2>6, <2>7 DEF PostsCounted
<1> QED
    BY <1>4, <1>5, <1>9

LEMMA RecordSafe ==
    ASSUME DeliveryTypes, DeliverySafe, NEW w \in Deliverers, Delivery!Record(w)
    PROVE  DeliverySafe'
<1> USE DEF DeliverySafe, DeliveryTypes, RowTypes, WorkerTypes, NodeTypes, TaskTypes, CountTypes,
            Queued, AtWork, Passes
<1>1. /\ worker[w].pc = "record" /\ worker' = [worker EXCEPT ![w] = Delivery!Idle]
      /\ UNCHANGED <<dHook, tasks, node, posts, overlaps, dFaults>>
    BY DEF Delivery!Record
<1>2. ~Queued' /\ ~AtWork' /\ ~Passes'
    BY <1>1 DEF OneTask, Delivery!Idle
<1>3. OneTask'
    BY <1>1, <1>2 DEF OneTask
<1>4. dRow'.status = "retry" => dRow'.next = "later"
    BY DEF Delivery!Record, Delivery!UpdateDelivery, Delivery!NoRow
<1>5. RowRests'
    BY <1>2, <1>4 DEF RowRests
<1>6. ASSUME dHook, dRow'.status = "retry"
      PROVE  dRow'.attempts \in 1 .. MaxAttempts - 1 /\ dRow'.attempts = worker[w].attempts + 1
  <2>1. Carries(worker[w].attempts) /\ worker[w].attempts \in Nat
      BY <1>1, <1>6 DEF PostsCounted, Delivery!Tries
  <2>2. ~Delivery!GiveUp(worker[w].attempts)
      BY <1>6, <2>1 DEF Delivery!Record, Delivery!UpdateDelivery, Delivery!NoRow, Carries
  <2>3. dRow'.attempts = worker[w].attempts + 1
      BY <1>6, <2>1 DEF Delivery!Record, Delivery!UpdateDelivery, Delivery!NoRow, Carries
  <2> QED
      BY <2>1, <2>2, <2>3, DeliveryAssumed DEF Delivery!GiveUp, Delivery!DeliveryAssumption
<1>7. PostsCounted'
    BY <1>1, <1>2, <1>6, DeliveryAssumed
    DEF PostsCounted, Leaves, Delivery!DeliveryAssumption
<1> QED
    BY <1>3, <1>5, <1>7

LEMMA RetriesSafe ==
    ASSUME DeliveryTypes, DeliverySafe, overlaps = 0, overlaps' = 0,
           Delivery!Due \/ \E n \in Nodes : Delivery!Pass(n)
    PROVE  DeliverySafe'
<1> USE DEF DeliverySafe, DeliveryTypes, RowTypes, WorkerTypes, NodeTypes, TaskTypes, CountTypes,
            Queued, AtWork, Passes
<1>1. CASE Delivery!Due
  <2>1. ~Queued /\ ~AtWork /\ ~Passes
      BY <1>1 DEF Delivery!Due, Delivery!OverlapIf, Delivery!Busy
  <2>2. /\ UNCHANGED <<dHook, tasks, worker, node, posts, dFaults>>
        /\ dRow.status = "retry" /\ dRow'.status = "retry" /\ dRow'.attempts = dRow.attempts
      BY <1>1 DEF Delivery!Due
  <2>3. OneTask' /\ RowRests'
      BY <2>1, <2>2 DEF OneTask, RowRests
  <2>4. PostsCounted'
      BY <2>1, <2>2 DEF PostsCounted, Leaves
  <2> QED
      BY <2>3, <2>4
<1>2. ASSUME NEW n \in Nodes, Delivery!ReadDue(n) PROVE DeliverySafe'
  <2>1. /\ UNCHANGED <<dHook, tasks, worker, posts, dFaults>>
        /\ dRow.status = "retry" /\ dRow.next = "due"
      BY <1>2 DEF Delivery!ReadDue
  <2>2. ~Queued /\ ~AtWork /\ \A m \in Nodes : node[m].pc # "enqueue"
      BY <2>1 DEF RowRests
  <2>3. CASE dHook
    <3>1. /\ node' = [node EXCEPT ![n] = [pc |-> "defer", attempts |-> dRow.attempts]]
          /\ UNCHANGED dRow
          /\ ~(\E m \in Nodes : node[m].pc = "defer")
        BY <1>2, <2>3 DEF Delivery!ReadDue, Delivery!OverlapIf
    <3>2. /\ node'[n].pc = "defer" /\ node'[n].attempts = dRow.attempts
          /\ \A m \in Nodes : m # n => node'[m].pc = "idle"
        BY <2>2, <3>1
    <3>3. OneTask'
        BY <2>1, <2>2, <3>2 DEF OneTask
    <3>4. RowRests'
        BY <2>1, <2>2, <2>3, <3>1, <3>2 DEF RowRests
    <3>5. dRow.attempts \in 1 .. MaxAttempts - 1 /\ Leaves(dRow.attempts)
        BY <2>1, <2>2, <2>3 DEF PostsCounted
    <3>6. PostsCounted'
        BY <2>1, <2>2, <3>1, <3>2, <3>5, DeliveryAssumed
        DEF PostsCounted, Leaves, Carries, Delivery!DeliveryAssumption
    <3> QED
        BY <3>3, <3>4, <3>6
  <2>4. CASE ~dHook
    <3>1. UNCHANGED node /\ dRow'.status # "retry"
        BY <1>2, <2>4 DEF Delivery!ReadDue, Delivery!UpdateDelivery, Delivery!NoRow
    <3>2. OneTask'
        BY <2>1, <3>1 DEF OneTask
    <3>3. ~Passes
        BY <2>1, <2>4 DEF RowRests
    <3>4. RowRests'
        BY <2>1, <2>2, <3>1, <3>3 DEF RowRests
    <3>5. PostsCounted'
        BY <2>1, <2>2, <2>4 DEF PostsCounted, Leaves
    <3> QED
        BY <3>2, <3>4, <3>5
  <2> QED
      BY <2>3, <2>4
<1>3. ASSUME NEW n \in Nodes, Delivery!Defer(n) PROVE DeliverySafe'
  <2>1. /\ node[n].pc = "defer" /\ node' = [node EXCEPT ![n].pc = "enqueue"]
        /\ UNCHANGED <<dHook, tasks, worker, posts, dFaults>>
        /\ dRow' = IF dRow = Delivery!NoRow THEN dRow ELSE [dRow EXCEPT !.next = "later"]
      BY <1>3 DEF Delivery!Defer
  <2>2. /\ node'[n].pc = "enqueue" /\ node'[n].attempts = node[n].attempts
        /\ \A m \in Nodes : m # n => node'[m] = node[m] /\ node[m].pc = "idle"
        /\ ~Queued /\ ~AtWork
      BY <2>1 DEF OneTask
  <2>3. OneTask'
      BY <2>1, <2>2 DEF OneTask
  <2>4. /\ dRow'.status = dRow.status /\ dRow'.attempts = dRow.attempts
        /\ dRow'.next = "later" \/ dRow'.status = "none"
        /\ dRow = Delivery!NoRow => dRow' = Delivery!NoRow
      BY <2>1 DEF Delivery!NoRow
  <2>5. RowRests'
      BY <2>1, <2>2, <2>4 DEF RowRests
  <2>6. dHook => Leaves(node[n].attempts) /\ Carries(node[n].attempts)
      BY <2>1 DEF PostsCounted
  <2>7. PostsCounted'
      BY <2>1, <2>2, <2>4, <2>6 DEF PostsCounted, Leaves, Carries
  <2> QED
      BY <2>3, <2>5, <2>7
<1>4. ASSUME NEW n \in Nodes, Delivery!Enqueue(n) PROVE DeliverySafe'
  <2>1. /\ node[n].pc = "enqueue"
        /\ node' = [node EXCEPT ![n] = [pc |-> "idle", attempts |-> 0]]
        /\ UNCHANGED <<dHook, dRow, worker, posts>>
        /\ \/ tasks' = [tasks EXCEPT ![node[n].attempts] = @ + 1] /\ UNCHANGED dFaults
           \/ UNCHANGED tasks /\ dFaults' = dFaults + 1
      BY <1>4 DEF Delivery!Enqueue
  <2>2. ~Queued /\ ~AtWork /\ ~AtWork' /\ ~Passes'
      BY <2>1 DEF OneTask
  <2>3. \A a \in Delivery!Tries :
          /\ tasks[a] = 0
          /\ \/ tasks'[a] = 0
             \/ a = node[n].attempts /\ tasks'[a] = 1 /\ UNCHANGED dFaults
      BY <2>1, <2>2
  <2>4. OneTask'
      BY <2>1, <2>2, <2>3 DEF OneTask
  <2>5. dRow.status \notin {"success", "failed"} /\ ~(dRow.status = "retry" /\ dRow.next = "due")
      BY <2>1 DEF RowRests
  <2>6. RowRests'
      BY <2>1, <2>5 DEF RowRests
  <2>7. dHook => Leaves(node[n].attempts) /\ Carries(node[n].attempts)
      BY <2>1 DEF PostsCounted
  <2>8. dFaults <= dFaults'
      BY <2>1
  <2>9. dHook /\ dRow.status = "retry" => Leaves(dRow.attempts)'
      BY <2>1, <2>7, <2>8 DEF Leaves, Carries, Delivery!NoRow
  <2>10. \A a \in Delivery!Tries :
          dHook' /\ tasks'[a] > 0 => Leaves(a)' /\ Carries(a)'
      BY <2>1, <2>3, <2>7 DEF Leaves, Carries
  <2>11. posts' <= MaxAttempts + dFaults'
      BY <2>1, <2>8, DeliveryAssumed DEF PostsCounted, Delivery!DeliveryAssumption
  <2>12. dHook /\ dRow.status = "retry" => dRow.attempts \in 1 .. MaxAttempts - 1
      BY DEF PostsCounted
  <2>13. PostsCounted'
    <3>1. \A v \in Deliverers : worker'[v].pc = "idle"
        BY <2>2
    <3>2. \A m \in Nodes : node'[m].pc = "idle"
        BY <2>2
    <3> QED
        BY <2>1, <2>9, <2>10, <2>11, <2>12, <3>1, <3>2 DEF PostsCounted
  <2> QED
      BY <2>4, <2>6, <2>13
<1> QED
    BY <1>1, <1>2, <1>3, <1>4 DEF Delivery!Pass

LEMMA EndsSafe ==
    ASSUME DeliveryTypes, DeliverySafe, Delivery!DeleteWebhook \/ Delivery!Crash
    PROVE  DeliverySafe'
<1> USE DEF DeliverySafe, DeliveryTypes, RowTypes, WorkerTypes, NodeTypes, TaskTypes, CountTypes,
            Queued, AtWork, Passes
<1>1. CASE Delivery!DeleteWebhook
    BY <1>1 DEF Delivery!DeleteWebhook, Delivery!NoRow, OneTask, RowRests, PostsCounted, Leaves
<1>2. CASE Delivery!Crash
  <2>1. /\ UNCHANGED <<dHook, dRow, posts>> /\ dFaults' = dFaults + 1
        /\ ~AtWork' /\ ~Passes' /\ \A a \in Delivery!Tries : tasks'[a] \in {0, tasks[a]}
      BY <1>2 DEF Delivery!Crash, Delivery!Idle
  <2>2. OneTask'
      BY <2>1 DEF OneTask
  <2>3. RowRests'
      BY <2>1 DEF RowRests
  <2>4. ASSUME dHook, dRow.status = "retry" PROVE Leaves(dRow.attempts)'
    <3>1. CASE ~AtWork
        BY <2>1, <2>4, <3>1 DEF PostsCounted, Leaves
    <3>2. ASSUME NEW w \in Deliverers, worker[w].pc = "post" PROVE Leaves(dRow.attempts)'
        BY <2>1, <2>4, <3>2 DEF PostsCounted, Leaves, Carries, Delivery!NoRow
    <3>3. ASSUME NEW w \in Deliverers, worker[w].pc = "record" PROVE Leaves(dRow.attempts)'
        BY <2>1, <2>4, <3>3, DeliveryAssumed
        DEF PostsCounted, Leaves, Carries, Delivery!NoRow, Delivery!DeliveryAssumption
    <3> QED
        BY <3>1, <3>2, <3>3
  <2>5. \A a \in Delivery!Tries :
          dHook' /\ tasks'[a] > 0 => Leaves(a)' /\ Carries(a)'
    <3>1. SUFFICES ASSUME NEW a \in Delivery!Tries, dHook, tasks'[a] > 0
                   PROVE  Leaves(a)' /\ Carries(a)'
        BY <2>1
    <3>2. tasks[a] > 0
        BY <2>1, <3>1
    <3>3. Leaves(a) /\ Carries(a)
        BY <3>1, <3>2 DEF PostsCounted
    <3>4. a \in Nat
        BY DEF Delivery!Tries
    <3> QED
        BY <2>1, <3>3, <3>4 DEF Leaves, Carries
  <2>6. posts' <= MaxAttempts + dFaults'
      BY <2>1, DeliveryAssumed DEF PostsCounted, Delivery!DeliveryAssumption
  <2>7. dHook /\ dRow.status = "retry" => dRow.attempts \in 1 .. MaxAttempts - 1
      BY DEF PostsCounted
  <2>8. PostsCounted'
    <3>1. \A v \in Deliverers : worker'[v].pc = "idle"
        BY <2>1
    <3>2. \A m \in Nodes : node'[m].pc = "idle"
        BY <2>1
    <3> QED
        BY <2>1, <2>4, <2>5, <2>6, <2>7, <3>1, <3>2 DEF PostsCounted
  <2> QED
      BY <2>2, <2>3, <2>8
<1> QED
    BY <1>1, <1>2

\* Overlaps are not forgotten.
LEMMA OverlapsStay ==
    ASSUME DeliveryTypes, Delivery!Next, overlaps' = 0
    PROVE  overlaps = 0
<1>1. \/ UNCHANGED overlaps
      \/ \E b \in BOOLEAN : Delivery!OverlapIf(b)
    BY DEF Delivery!Next, Delivery!Worker, Delivery!Pass, Delivery!Take, Delivery!Post,
           Delivery!Record, Delivery!ReadDue, Delivery!Defer, Delivery!Enqueue, Delivery!Due,
           Delivery!DeleteWebhook, Delivery!Crash, Delivery!Busy
<1> QED
    BY <1>1 DEF DeliveryTypes, CountTypes, Delivery!OverlapIf

LEMMA DeliveryInvStep ==
    ASSUME DeliveryInv, Delivery!Next
    PROVE  DeliveryInv'
<1>1. DeliveryTypes'
    BY DeliveryTypesStep DEF DeliveryInv
<1>2. overlaps' = 0 => overlaps = 0
    BY OverlapsStay DEF DeliveryInv
<1>3. ASSUME overlaps = 0, overlaps' = 0 PROVE DeliverySafe'
  <2>1. DeliveryTypes /\ DeliverySafe
      BY <1>3 DEF DeliveryInv, DeliverySafe
  <2> QED
      BY <1>3, <2>1, TakeSafe, PostSafe, RecordSafe, RetriesSafe, EndsSafe
      DEF Delivery!Next, Delivery!Worker
<1> QED
    BY <1>1, <1>2, <1>3 DEF DeliveryInv, DeliverySafe

LEMMA DeliveryInvariance == BackgroundSpec => []DeliveryInv
<1>1. DeliveryInv /\ [BackgroundNext]_vars => DeliveryInv'
  <2> SUFFICES ASSUME DeliveryInv, [Delivery!Next]_deliveryVars PROVE DeliveryInv'
      BY DeliverySteps
  <2>1. CASE UNCHANGED deliveryVars
      BY <2>1 DEF deliveryVars, DeliveryInv, DeliveryTypes, RowTypes, WorkerTypes, NodeTypes,
                  TaskTypes, CountTypes, OneTask, RowRests, PostsCounted, Leaves, Carries, Queued,
                  AtWork, Passes
  <2> QED
      BY <2>1, DeliveryInvStep
<1> QED
    BY DeliveryInit, <1>1, PTL DEF BackgroundSpec

\* A receiver is not posted to more often than maxAttempts and once for each crash,
\* while no two tasks of the delivery are around: the attempts a task carries are
\* those of the row, and backoff gives up in time (webhooks.go:345-388).
THEOREM PostsAreBounded == BackgroundSpec => []AttemptsBounded
<1>1. DeliveryInv => AttemptsBounded
    BY DEF DeliveryInv, PostsCounted, AttemptsBounded, Delivery!AttemptsBounded
<1> QED
    BY DeliveryInvariance, <1>1, PTL

\* The outcome of a delivery is final, while no two tasks of it are around: once it
\* has one, nothing is queued or at work that could record another.
THEOREM OutcomesAreFinal == BackgroundSpec => OutcomeFinal
<1> DEFINE Final == dRow.status \in {"success", "failed"} /\ overlaps' = 0
                      => dRow'.status \in {dRow.status, "none"}
<1>1. DeliveryInv /\ DeliveryInv' /\ [BackgroundNext]_vars => [Final]_(Delivery!vars)
  <2> SUFFICES ASSUME DeliveryInv, DeliveryInv', Delivery!Next,
                      dRow.status \in {"success", "failed"}, overlaps' = 0
               PROVE  dRow'.status \in {dRow.status, "none"}
      BY DeliverySteps DEF deliveryVars, Delivery!vars
  <2>1. overlaps = 0
      BY OverlapsStay DEF DeliveryInv
  <2>2. ~Queued /\ ~AtWork /\ ~Passes
      BY <2>1 DEF DeliveryInv, RowRests
  <2>3. ASSUME NEW w \in Deliverers PROVE ~Delivery!Worker(w)
      BY <2>2, <2>3 DEF Delivery!Worker, Delivery!Take, Delivery!Post, Delivery!Record,
         Queued, AtWork
  <2>4. ASSUME NEW n \in Nodes PROVE ~Delivery!Pass(n)
      BY <2>2, <2>4 DEF Delivery!Pass, Delivery!ReadDue, Delivery!Defer, Delivery!Enqueue, Passes
  <2>5. CASE Delivery!Due \/ Delivery!DeleteWebhook \/ Delivery!Crash
      BY <2>5 DEF Delivery!Due, Delivery!DeleteWebhook, Delivery!Crash, Delivery!NoRow
  <2> QED
      BY <2>3, <2>4, <2>5 DEF Delivery!Next
<1> QED
    BY DeliveryInvariance, <1>1, PTL DEF BackgroundSpec, OutcomeFinal, Delivery!OutcomeFinal

----------------------------------------------------------------------------
(* The deliveries: their types.  A pass carries the attempts of the row,   *)
(* and the row counts no more attempts than there were posts.              *)

Recorders == {w \in Deliverers : worker[w].pc = "record"}

\* An attempt that the row counts, or that a worker is about to record, was posted.
AttemptsPosted ==
    /\ IsFiniteSet(Recorders) /\ posts <= MaxPosts
    /\ dHook => dRow.attempts + Cardinality(Recorders) <= posts
    /\ \A n \in Nodes : node[n].attempts \in Delivery!Tries

LEMMA AttemptsPostedInit == BackgroundInit => AttemptsPosted
<1> SUFFICES ASSUME Delivery!Init PROVE AttemptsPosted
    BY DEF BackgroundInit
<1>1. Recorders = {}
    BY DEF Delivery!Init, Delivery!Idle, Recorders
<1>2. MaxPosts \in Nat /\ 0 \in Delivery!Tries
    BY DeliveryAssumed DEF Delivery!DeliveryAssumption, Delivery!Tries
<1> QED
    BY <1>1, <1>2, FS_EmptySet DEF Delivery!Init, Delivery!NoRow, AttemptsPosted

\* A worker that posts or records.
LEMMA RecordersStep ==
    ASSUME DeliveryTypes, AttemptsPosted, NEW w \in Deliverers, Delivery!Worker(w)
    PROVE  AttemptsPosted'
<1> USE DEF DeliveryTypes, RowTypes, WorkerTypes, NodeTypes, CountTypes
<1>0. MaxPosts \in Nat /\ Cardinality(Recorders) \in Nat
    BY DeliveryAssumed, FS_CardinalityType DEF Delivery!DeliveryAssumption, AttemptsPosted
<1>1. CASE Delivery!Take(w)
  <2>1. Recorders' = Recorders
      BY <1>1 DEF Delivery!Take, Recorders
  <2>2. UNCHANGED <<dHook, posts, node>> /\ (dHook => UNCHANGED dRow)
      BY <1>1 DEF Delivery!Take
  <2> QED
      BY <2>1, <2>2 DEF AttemptsPosted
<1>2. CASE Delivery!Post(w)
  <2>1. /\ w \notin Recorders /\ Recorders' = Recorders \cup {w}
        /\ posts' = posts + 1 /\ posts < MaxPosts
        /\ UNCHANGED <<dHook, dRow, node>>
      BY <1>2 DEF Delivery!Post, Recorders
  <2>2. IsFiniteSet(Recorders') /\ Cardinality(Recorders') = Cardinality(Recorders) + 1
      BY <2>1, FS_AddElement DEF AttemptsPosted
  <2> QED
      BY <1>0, <2>1, <2>2 DEF AttemptsPosted
<1>3. CASE Delivery!Record(w)
  <2>1. /\ w \in Recorders /\ Recorders' = Recorders \ {w}
        /\ UNCHANGED <<dHook, node, posts>>
      BY <1>3 DEF Delivery!Record, Delivery!Idle, Recorders
  <2>2. IsFiniteSet(Recorders') /\ Cardinality(Recorders') = Cardinality(Recorders) - 1
      BY <2>1, FS_RemoveElement DEF AttemptsPosted
  <2>3. dRow'.attempts \in {1, dRow.attempts, dRow.attempts + 1}
      BY <1>3 DEF Delivery!Record, Delivery!UpdateDelivery
  <2>4. dHook => dRow'.attempts + Cardinality(Recorders') <= posts
      BY <1>0, <2>1, <2>2, <2>3 DEF AttemptsPosted
  <2> QED
      BY <2>1, <2>2, <2>4 DEF AttemptsPosted
<1> QED
    BY <1>1, <1>2, <1>3 DEF Delivery!Worker

LEMMA AttemptsPostedStep ==
    ASSUME DeliveryTypes, AttemptsPosted, Delivery!Next
    PROVE  AttemptsPosted'
<1> USE DEF DeliveryTypes, RowTypes, WorkerTypes, NodeTypes, CountTypes
<1>0. /\ MaxPosts \in Nat /\ Cardinality(Recorders) \in Nat
      /\ 0 \in Delivery!Tries /\ (dHook => dRow.attempts \in Delivery!Tries)
    BY DeliveryAssumed, FS_CardinalityType
    DEF Delivery!DeliveryAssumption, Delivery!Tries, AttemptsPosted
<1>1. ASSUME NEW n \in Nodes, Delivery!Pass(n) PROVE AttemptsPosted'
  <2>1. UNCHANGED <<worker, dHook, posts>> /\ Recorders' = Recorders
      BY <1>1 DEF Delivery!Pass, Delivery!ReadDue, Delivery!Defer, Delivery!Enqueue, Recorders
  <2>2. dHook => dRow'.attempts = dRow.attempts
      BY <1>1 DEF Delivery!Pass, Delivery!ReadDue, Delivery!Defer, Delivery!Enqueue
  <2>3. /\ \A m \in Nodes : m # n => node'[m] = node[m]
        /\ node'[n].attempts \in {node[n].attempts, 0, dRow.attempts}
        /\ dHook \/ node'[n].attempts \in {node[n].attempts, 0}
    <3>1. CASE Delivery!ReadDue(n)
      <4>1. \/ dHook /\ node' = [node EXCEPT ![n] = [pc |-> "defer", attempts |-> dRow.attempts]]
            \/ UNCHANGED node
          BY <3>1 DEF Delivery!ReadDue
      <4>2. CASE UNCHANGED node
          BY <4>2
      <4> QED
          BY <4>1, <4>2
    <3>2. CASE Delivery!Defer(n)
        BY <3>2 DEF Delivery!Defer
    <3>3. CASE Delivery!Enqueue(n)
        BY <3>3 DEF Delivery!Enqueue
    <3> QED
        BY <1>1, <3>1, <3>2, <3>3 DEF Delivery!Pass
  <2>4. \A m \in Nodes : node'[m].attempts \in Delivery!Tries
      BY <1>0, <2>3 DEF AttemptsPosted
  <2> QED
      BY <2>1, <2>2, <2>4 DEF AttemptsPosted
<1>2. CASE Delivery!Due
  <2>1. UNCHANGED <<worker, dHook, posts, node>> /\ dRow'.attempts = dRow.attempts
      BY <1>2 DEF Delivery!Due
  <2> QED
      BY <2>1 DEF AttemptsPosted, Recorders
<1>3. CASE Delivery!DeleteWebhook
    BY <1>3 DEF Delivery!DeleteWebhook, AttemptsPosted, Recorders
<1>4. CASE Delivery!Crash
  <2>1. Recorders' = {} /\ UNCHANGED <<dHook, dRow, posts>>
      BY <1>4 DEF Delivery!Crash, Delivery!Idle, Recorders
  <2>2. \A n \in Nodes : node'[n].attempts \in Delivery!Tries
      BY <1>0, <1>4 DEF Delivery!Crash
  <2> QED
      BY <1>0, <2>1, <2>2, FS_EmptySet DEF AttemptsPosted
<1> QED
    BY <1>1, <1>2, <1>3, <1>4, RecordersStep DEF Delivery!Next

LEMMA DeliveryTypesInvariance == BackgroundSpec => []Delivery!TypeOK
<1>1. DeliveryInv /\ AttemptsPosted /\ [BackgroundNext]_vars => AttemptsPosted'
  <2> SUFFICES ASSUME DeliveryInv, AttemptsPosted, [Delivery!Next]_deliveryVars
               PROVE  AttemptsPosted'
      BY DeliverySteps
  <2>1. CASE UNCHANGED deliveryVars
      BY <2>1 DEF deliveryVars, AttemptsPosted, Recorders
  <2> QED
      BY <2>1, AttemptsPostedStep DEF DeliveryInv
<1>2. DeliveryInv /\ AttemptsPosted => Delivery!TypeOK
  <2> SUFFICES ASSUME DeliveryTypes, AttemptsPosted PROVE Delivery!TypeOK
      BY DEF DeliveryInv
  <2> USE DEF DeliveryTypes, RowTypes, WorkerTypes, NodeTypes, TaskTypes, CountTypes
  <2>1. node \in [Nodes -> [pc : {"idle", "defer", "enqueue"}, attempts : Delivery!Tries]]
    <3>1. \A n \in Nodes :
            node[n] \in [pc : {"idle", "defer", "enqueue"}, attempts : Delivery!Tries]
        BY DEF AttemptsPosted
    <3> QED
        BY <3>1
  <2> QED
      BY <2>1 DEF Delivery!TypeOK
<1> QED
    BY DeliveryInvariance, AttemptsPostedInit, <1>1, <1>2, PTL DEF BackgroundSpec

----------------------------------------------------------------------------
(* The inductive invariant of the blobs.                                   *)

\* A request that has passed the session's mutex.
Inside(q) == req[q].pc \in {"open", "append", "hash", "stat", "rename", "grant"}

\* A session's requests are served one at a time, each for a digest if it finishes.
OneRequest ==
    /\ \A q \in Requests : req[q].pc # "idle" => req[q].s \in Uploads /\ session[req[q].s] # "none"
    /\ \A q \in Requests :
         req[q].pc \in {"hash", "stat", "rename", "grant"} => req[q].digest \in Contents
    /\ \A q, r \in Requests : Inside(q) /\ Inside(r) /\ req[q].s = req[r].s => q = r

\* Packages write their own file or one that has a digest's name.
Writer(p) == pkg[p].pc = "write"
OwnPackage ==
    \A p \in Packages :
        /\ pkg[p].pc # "idle" => pkg[p].d \in Contents
        /\ pkg[p].pc = "move" => content[p] = pkg[p].d
        /\ Writer(p) => /\ pkg[p].fd \in Uploads \cup Packages
                        /\ \A c \in Contents : path[c] = pkg[p].fd => c = pkg[p].d
        /\ pkg[p].pc \in {"idle", "open", "move"} =>
              /\ \A c \in Contents : path[c] # p
              /\ \A w \in Packages : Writer(w) => pkg[w].fd # p

\* The file of a session has either its own name or, from then on, a digest's, and
\* nobody appends to it any more.
OneName ==
    \A s \in Uploads :
        /\ session[s] = "none" => ~named[s]
        /\ session[s] = "none" \/ named[s] =>
              /\ \A c \in Contents : path[c] # s
              /\ \A w \in Packages : Writer(w) => pkg[w].fd # s
        /\ \A q \in Requests : req[q].pc = "append" /\ req[q].s = s =>
              /\ \A c \in Contents : path[c] # s
              /\ \A w \in Packages : Writer(w) => pkg[w].fd # s
        /\ \A q \in Requests : req[q].pc \in {"stat", "rename"} /\ req[q].s = s /\ named[s] =>
              content[s] = req[q].digest

\* No file has two digests' names.
OneDigest == \A c, d \in Contents : path[c] = path[d] /\ path[c] # Blobs!NoFile => c = d

\* A digest's file is its content, unless it is being written or a write broke off.
WholeFiles ==
    \A c \in Contents \ cut :
        path[c] # Blobs!NoFile =>
            content[path[c]] = c \/ \E p \in Packages : Writer(p) /\ pkg[p].fd = path[c]

\* What is referred to, or is about to be, is there.
Referred ==
    /\ \A c \in known : path[c] # Blobs!NoFile
    /\ \A q \in Requests : req[q].pc = "grant" => path[req[q].digest] # Blobs!NoFile
    /\ \A p \in Packages : pkg[p].pc \in {"write", "create"} => path[pkg[p].d] # Blobs!NoFile

BlobInv ==
    /\ Blobs!TypeOK /\ OneRequest /\ OwnPackage /\ OneName /\ OneDigest /\ WholeFiles
    /\ Referred

\* The steps of a request.
LEMMA GotoFields ==
    ASSUME Blobs!TypeOK, NEW q \in Requests, NEW pc, Blobs!Goto(q, pc)
    PROVE  /\ req'[q].pc = pc /\ req'[q].s = req[q].s /\ req'[q].digest = req[q].digest
           /\ \A r \in Requests : r # q => req'[r] = req[r]
    BY DEF Blobs!TypeOK, Blobs!Goto

LEMMA DoneFields ==
    ASSUME Blobs!TypeOK, NEW q \in Requests, Blobs!Done(q)
    PROVE  /\ req'[q].pc = "idle" /\ req'[q].s = Blobs!NoFile
           /\ \A r \in Requests : r # q => req'[r] = req[r]
    BY DEF Blobs!TypeOK, Blobs!Done, Blobs!Quiet

LEMMA UnlinkFields ==
    ASSUME Blobs!TypeOK, NEW s \in Uploads
    PROVE  /\ Blobs!Unlink(s) => ~named'[s] /\ \A t \in Uploads : t # s => named'[t] = named[t]
           /\ Blobs!Close(s) => session'[s] = "closed"
                                /\ \A t \in Uploads : t # s => session'[t] = session[t]
    BY DEF Blobs!TypeOK, Blobs!Unlink, Blobs!Close

\* Files that are not made anew keep their names or lose them.
NamesGo == \A s \in Uploads :
    /\ session'[s] = "none" <=> session[s] = "none"
    /\ named'[s] => named[s]

\* A request goes on, or comes to its end.
Ends(q)  == req'[q].pc = "idle" /\ req'[q].s = Blobs!NoFile
Stays(q) == req'[q].s = req[q].s /\ req'[q].digest = req[q].digest
Only(q)  == \A r \in Requests : r # q => req'[r] = req[r]

LEMMA SessionOfRequest ==
    ASSUME BlobInv, NEW q \in Requests, req[q].pc # "idle"
    PROVE  req[q].s \in Uploads /\ session[req[q].s] # "none"
    BY DEF BlobInv, OneRequest

LEMMA LoadEffect ==
    ASSUME BlobInv, NEW q \in Requests, Blobs!Load(q)
    PROVE  /\ Only(q) /\ NamesGo /\ UNCHANGED <<content, path, pkg, known, cut>>
           /\ req[q].pc = "idle" /\ req'[q].pc = "lock"
           /\ req'[q].s \in Uploads /\ session[req'[q].s] # "none"
    BY DEF BlobInv, Blobs!TypeOK, Blobs!Load, Only, NamesGo

LEMMA LockEffect ==
    ASSUME BlobInv, NEW q \in Requests, Blobs!Lock(q)
    PROVE  /\ Only(q) /\ NamesGo /\ UNCHANGED <<content, path, pkg, known, cut>>
           /\ req[q].pc = "lock" /\ req'[q].pc = "open" /\ Stays(q)
           /\ \A r \in Requests : req[r].s = req[q].s => ~Inside(r)
    BY GotoFields DEF BlobInv, Blobs!Lock, Blobs!Free, Inside, Only, NamesGo, Stays

LEMMA AbortEffect ==
    ASSUME BlobInv, NEW q \in Requests,
           Blobs!Abort(q) \/ Blobs!BodyBreaks(q) \/ Blobs!RenameFails(q)
    PROVE  /\ Only(q) /\ NamesGo /\ UNCHANGED <<content, path, pkg, known, cut>>
           /\ Inside(q) /\ Ends(q)
<1>1. req[q].pc # "idle" /\ Inside(q) /\ UNCHANGED <<content, path, pkg, known, cut>>
    BY DEF Blobs!Abort, Blobs!BodyBreaks, Blobs!RenameFails, Inside
<1>2. Only(q) /\ Ends(q)
    BY DoneFields DEF BlobInv, Blobs!Abort, Blobs!BodyBreaks, Blobs!RenameFails, Only, Ends
<1>3. req[q].s \in Uploads /\ session[req[q].s] # "none"
    BY <1>1, SessionOfRequest
<1>4. NamesGo
    BY <1>3, UnlinkFields
    DEF BlobInv, Blobs!Abort, Blobs!BodyBreaks, Blobs!RenameFails, NamesGo
<1> QED
    BY <1>1, <1>2, <1>4

LEMMA OpenTmpEffect ==
    ASSUME BlobInv, NEW q \in Requests, Blobs!OpenTmp(q)
    PROVE  /\ Only(q) /\ NamesGo /\ UNCHANGED <<content, path, pkg, known, cut>>
           /\ Inside(q)
           /\ Ends(q) \/ (Stays(q) /\ req'[q].pc = "append" /\ named[req[q].s])
    BY GotoFields, DoneFields DEF BlobInv, Blobs!OpenTmp, Inside, Only, NamesGo, Stays, Ends

LEMMA AppendEffect ==
    ASSUME BlobInv, NEW q \in Requests, Blobs!AppendBody(q)
    PROVE  /\ Only(q) /\ NamesGo /\ UNCHANGED <<path, pkg, known, cut>>
           /\ \A i \in Uploads \cup Packages : i # req[q].s => content'[i] = content[i]
           /\ req[q].pc = "append"
           /\ Ends(q) \/ (Stays(q) /\ req'[q].pc = "hash" /\ req[q].digest \in Contents)
<1>1. /\ req[q].pc = "append" /\ UNCHANGED <<path, pkg, known, cut>>
      /\ \A i \in Uploads \cup Packages : i # req[q].s => content'[i] = content[i]
    BY DEF BlobInv, Blobs!TypeOK, Blobs!AppendBody
<1>2. req[q].s \in Uploads /\ session[req[q].s] # "none"
    BY <1>1, SessionOfRequest
<1>3. \/ /\ Blobs!Unlink(req[q].s) /\ Blobs!Close(req[q].s) /\ Blobs!Done(q)
      \/ /\ UNCHANGED <<named, session>>
         /\ \/ Blobs!Done(q)
            \/ req[q].digest # Blobs!NoDigest /\ Blobs!Goto(q, "hash")
    BY DEF Blobs!AppendBody
<1>4. NamesGo
    BY <1>2, <1>3, UnlinkFields DEF BlobInv, NamesGo
<1>5. req[q].digest # Blobs!NoDigest => req[q].digest \in Contents
    BY DEF BlobInv, Blobs!TypeOK
<1>6. Only(q) /\ (Ends(q) \/ (Stays(q) /\ req'[q].pc = "hash" /\ req[q].digest \in Contents))
    BY <1>3, <1>5, GotoFields, DoneFields DEF BlobInv, Only, Stays, Ends
<1> QED
    BY <1>1, <1>4, <1>6

LEMMA HashEffect ==
    ASSUME BlobInv, NEW q \in Requests, Blobs!Hash(q)
    PROVE  /\ Only(q) /\ NamesGo /\ UNCHANGED <<content, path, pkg, known, cut>>
           /\ req[q].pc = "hash" /\ req[q].digest \in Contents
           /\ Ends(q) \/ (Stays(q) /\ req'[q].pc = "stat" /\ content[req[q].s] = req[q].digest)
<1>1. req[q].pc = "hash" /\ UNCHANGED <<content, path, pkg, known, cut>>
    BY DEF Blobs!Hash
<1>2. req[q].s \in Uploads /\ session[req[q].s] # "none"
    BY <1>1, SessionOfRequest
<1>3. \/ /\ content[req[q].s] = req[q].digest /\ Blobs!Goto(q, "stat")
         /\ UNCHANGED <<session, named>>
      \/ Blobs!Unlink(req[q].s) /\ Blobs!Close(req[q].s) /\ Blobs!Done(q)
    BY DEF Blobs!Hash
<1>4. NamesGo
    BY <1>2, <1>3, UnlinkFields DEF BlobInv, NamesGo
<1>5. /\ Only(q)
      /\ Ends(q) \/ (Stays(q) /\ req'[q].pc = "stat" /\ content[req[q].s] = req[q].digest)
    BY <1>3, GotoFields, DoneFields DEF BlobInv, Only, Stays, Ends
<1> QED
    BY <1>1, <1>4, <1>5 DEF BlobInv, OneRequest

LEMMA StatEffect ==
    ASSUME BlobInv, NEW q \in Requests, Blobs!StatBlob(q)
    PROVE  /\ Only(q) /\ NamesGo /\ UNCHANGED <<content, path, pkg, known, cut>>
           /\ req[q].pc = "stat" /\ req[q].digest \in Contents
           /\ \/ Ends(q)
              \/ Stays(q) /\ req'[q].pc = "rename"
              \/ Stays(q) /\ req'[q].pc = "grant" /\ path[req[q].digest] # Blobs!NoFile
<1>1. req[q].pc = "stat" /\ UNCHANGED <<content, path, pkg, known, cut>>
    BY DEF Blobs!StatBlob
<1>2. req[q].s \in Uploads /\ session[req[q].s] # "none"
    BY <1>1, SessionOfRequest
<1>3. \/ Blobs!Goto(q, "rename") /\ UNCHANGED <<session, named>>
      \/ /\ path[req[q].digest] # Blobs!NoFile /\ Blobs!Goto(q, "grant")
         /\ Blobs!Unlink(req[q].s) /\ UNCHANGED session
      \/ Blobs!Close(req[q].s) /\ Blobs!Done(q) /\ UNCHANGED named
    BY DEF Blobs!StatBlob
<1>4. NamesGo
    BY <1>2, <1>3, UnlinkFields DEF BlobInv, NamesGo
<1>5. /\ Only(q)
      /\ \/ Ends(q)
         \/ Stays(q) /\ req'[q].pc = "rename"
         \/ Stays(q) /\ req'[q].pc = "grant" /\ path[req[q].digest] # Blobs!NoFile
    BY <1>3, GotoFields, DoneFields DEF BlobInv, Only, Stays, Ends
<1> QED
    BY <1>1, <1>4, <1>5 DEF BlobInv, OneRequest

\* The rename gives the file of the session the name of the digest.
Renamed(q) ==
    /\ Stays(q) /\ req'[q].pc = "grant" /\ named[req[q].s] /\ ~named'[req[q].s]
    /\ path'[req[q].digest] = req[q].s
    /\ \A c \in Contents : c # req[q].digest => path'[c] = path[c]

LEMMA RenameEffect ==
    ASSUME BlobInv, NEW q \in Requests, Blobs!Rename(q)
    PROVE  /\ Only(q) /\ NamesGo /\ UNCHANGED <<content, pkg, known, cut>>
           /\ req[q].pc = "rename" /\ req[q].digest \in Contents /\ req[q].s \in Uploads
           /\ (Ends(q) /\ UNCHANGED path) \/ Renamed(q)
<1>1. req[q].pc = "rename" /\ UNCHANGED <<content, pkg, known, cut>>
    BY DEF Blobs!Rename
<1>2. req[q].s \in Uploads /\ session[req[q].s] # "none" /\ req[q].digest \in Contents
    BY <1>1, SessionOfRequest DEF BlobInv, OneRequest
<1>3. \/ /\ named[req[q].s] /\ path' = [path EXCEPT ![req[q].digest] = req[q].s]
         /\ Blobs!Unlink(req[q].s) /\ Blobs!Goto(q, "grant") /\ UNCHANGED session
      \/ Blobs!Close(req[q].s) /\ Blobs!Done(q) /\ UNCHANGED <<path, named>>
    BY DEF Blobs!Rename
<1>4. NamesGo
    BY <1>2, <1>3, UnlinkFields DEF BlobInv, NamesGo
<1>5. /\ Only(q)
      /\ \/ Ends(q) /\ UNCHANGED path
         \/ Stays(q) /\ req'[q].pc = "grant"
            /\ path' = [path EXCEPT ![req[q].digest] = req[q].s]
            /\ named[req[q].s] /\ ~named'[req[q].s]
    BY <1>2, <1>3, GotoFields, DoneFields, UnlinkFields DEF BlobInv, Only, Stays, Ends
<1>6. path \in [Contents -> Uploads \cup Packages \cup {Blobs!NoFile}]
    BY DEF BlobInv, Blobs!TypeOK
<1>7. (Ends(q) /\ UNCHANGED path) \/ Renamed(q)
    BY <1>2, <1>5, <1>6 DEF Renamed
<1> QED
    BY <1>1, <1>2, <1>4, <1>5, <1>7

LEMMA GrantEffect ==
    ASSUME BlobInv, NEW q \in Requests, Blobs!Grant(q)
    PROVE  /\ Only(q) /\ NamesGo /\ UNCHANGED <<content, path, pkg, cut>>
           /\ req[q].pc = "grant" /\ Ends(q) /\ req[q].digest \in Contents
           /\ known' = known \cup {req[q].digest}
<1>1. /\ req[q].pc = "grant" /\ UNCHANGED <<content, path, pkg, cut>>
      /\ known' = known \cup {req[q].digest}
    BY DEF Blobs!Grant
<1>2. req[q].s \in Uploads /\ session[req[q].s] # "none" /\ req[q].digest \in Contents
    BY <1>1, SessionOfRequest DEF BlobInv, OneRequest
<1>3. NamesGo
    BY <1>2, UnlinkFields DEF BlobInv, NamesGo, Blobs!Grant
<1>4. Only(q) /\ Ends(q)
    BY DoneFields DEF BlobInv, Blobs!Grant, Only, Ends
<1> QED
    BY <1>1, <1>2, <1>3, <1>4

\* The steps of a package.
OnlyPkg(p) == \A r \in Packages : r # p => pkg'[r] = pkg[r]
OnlyFile(i) == \A j \in Uploads \cup Packages : j # i => content'[j] = content[j]
OnlyName(d) == \A c \in Contents : c # d => path'[c] = path[c]

LEMMA StoreBlobEffect ==
    ASSUME BlobInv, NEW p \in Packages, NEW d \in Contents, Blobs!StoreBlob(p, d)
    PROVE  /\ OnlyPkg(p) /\ UNCHANGED <<content, path, session, named, req, known, cut>>
           /\ pkg[p].pc = "idle" /\ pkg'[p].d = d
           /\ \/ pkg'[p].pc = "open"
              \/ pkg'[p].pc = "create" /\ path[d] # Blobs!NoFile
    BY DEF BlobInv, Blobs!TypeOK, Blobs!StoreBlob, OnlyPkg

LEMMA FromFileEffect ==
    ASSUME BlobInv, NEW p \in Packages, NEW d \in Contents, Blobs!FromFile(p, d)
    PROVE  /\ OnlyPkg(p) /\ UNCHANGED <<path, session, named, req, known, cut>>
           /\ content'[p] = d /\ OnlyFile(p)
           /\ pkg[p].pc = "idle" /\ pkg'[p].d = d
           /\ \/ pkg'[p].pc = "move"
              \/ pkg'[p].pc = "create" /\ path[d] # Blobs!NoFile
    BY DEF BlobInv, Blobs!TypeOK, Blobs!FromFile, OnlyPkg, OnlyFile

LEMMA WriteOpenEffect ==
    ASSUME BlobInv, NEW p \in Packages, Blobs!WriteOpen(p)
    PROVE  /\ OnlyPkg(p) /\ UNCHANGED <<session, named, req, known, cut>>
           /\ pkg[p].pc = "open" /\ pkg'[p].pc = "write"
           /\ pkg[p].d \in Contents /\ pkg'[p].d = pkg[p].d
           /\ pkg'[p].fd \in Uploads \cup Packages
           /\ pkg'[p].fd = IF path[pkg[p].d] = Blobs!NoFile THEN p ELSE path[pkg[p].d]
           /\ path'[pkg[p].d] = pkg'[p].fd /\ OnlyName(pkg[p].d)
           /\ OnlyFile(pkg'[p].fd)
<1>1. pkg[p].pc = "open" /\ pkg[p].d \in Contents
    BY DEF BlobInv, OwnPackage, Blobs!WriteOpen
<1> DEFINE f == IF path[pkg[p].d] = Blobs!NoFile THEN p ELSE path[pkg[p].d]
<1>2. f \in Uploads \cup Packages
    BY <1>1 DEF BlobInv, Blobs!TypeOK
<1>3. /\ path' = [path EXCEPT ![pkg[p].d] = f] /\ content' = [content EXCEPT ![f] = << >>]
      /\ pkg' = [pkg EXCEPT ![p] = [@ EXCEPT !.pc = "write", !.fd = f]]
      /\ UNCHANGED <<session, named, req, known, cut>>
    BY DEF Blobs!WriteOpen
<1> HIDE DEF f
<1>4. OnlyPkg(p) /\ pkg'[p].pc = "write" /\ pkg'[p].d = pkg[p].d /\ pkg'[p].fd = f
    BY <1>3 DEF BlobInv, Blobs!TypeOK, OnlyPkg
<1>5. path'[pkg[p].d] = f /\ OnlyName(pkg[p].d) /\ OnlyFile(f)
    BY <1>1, <1>2, <1>3 DEF BlobInv, Blobs!TypeOK, OnlyName, OnlyFile
<1> QED
    BY <1>1, <1>2, <1>3, <1>4, <1>5 DEF f

LEMMA WriteEffect ==
    ASSUME BlobInv, NEW p \in Packages, Blobs!Write(p)
    PROVE  /\ OnlyPkg(p) /\ UNCHANGED <<path, session, named, req, known, cut>>
           /\ pkg[p].pc = "write" /\ pkg'[p].pc = "create"
           /\ pkg[p].d \in Contents /\ pkg'[p].d = pkg[p].d
           /\ pkg[p].fd \in Uploads \cup Packages
           /\ content'[pkg[p].fd] = pkg[p].d /\ OnlyFile(pkg[p].fd)
<1>1. pkg[p].pc = "write" /\ pkg[p].d \in Contents /\ pkg[p].fd \in Uploads \cup Packages
    BY DEF BlobInv, OwnPackage, Writer, Blobs!Write
<1> QED
    BY <1>1 DEF BlobInv, Blobs!TypeOK, Blobs!Write, OnlyPkg, OnlyFile

LEMMA WriteFailsEffect ==
    ASSUME BlobInv, NEW p \in Packages, Blobs!WriteFails(p)
    PROVE  /\ OnlyPkg(p) /\ UNCHANGED <<content, path, session, named, req, known>>
           /\ pkg[p].pc = "write" /\ pkg'[p].pc = "done" /\ pkg'[p].d = pkg[p].d
           /\ cut' = cut \cup {pkg[p].d}
    BY DEF BlobInv, Blobs!TypeOK, Blobs!WriteFails, OnlyPkg

LEMMA MoveEffect ==
    ASSUME BlobInv, NEW p \in Packages, Blobs!Move(p)
    PROVE  /\ OnlyPkg(p) /\ UNCHANGED <<content, session, named, req, known, cut>>
           /\ pkg[p].pc = "move" /\ pkg'[p].pc = "create"
           /\ pkg[p].d \in Contents /\ pkg'[p].d = pkg[p].d
           /\ path'[pkg[p].d] = p /\ OnlyName(pkg[p].d)
<1>1. pkg[p].pc = "move" /\ pkg[p].d \in Contents
    BY DEF BlobInv, OwnPackage, Blobs!Move
<1> QED
    BY <1>1 DEF BlobInv, Blobs!TypeOK, Blobs!Move, OnlyPkg, OnlyName

LEMMA CreateRowEffect ==
    ASSUME BlobInv, NEW p \in Packages, Blobs!CreateRow(p)
    PROVE  /\ OnlyPkg(p) /\ UNCHANGED <<content, path, session, named, req, cut>>
           /\ pkg[p].pc = "create" /\ pkg'[p].pc = "done"
           /\ pkg[p].d \in Contents /\ pkg'[p].d = pkg[p].d
           /\ known' \subseteq known \cup {pkg[p].d}
<1>1. pkg[p].pc = "create" /\ pkg[p].d \in Contents
    BY DEF BlobInv, OwnPackage, Blobs!CreateRow
<1> QED
    BY <1>1 DEF BlobInv, Blobs!TypeOK, Blobs!CreateRow, OnlyPkg

LEMMA CrashEffect ==
    ASSUME BlobInv, Blobs!Crash
    PROVE  /\ NamesGo /\ UNCHANGED <<content, path, named, known>>
           /\ \A q \in Requests : Ends(q)
           /\ \A p \in Packages :
                /\ pkg'[p].d = pkg[p].d
                /\ pkg'[p].pc = "done" \/ (pkg[p].pc = "idle" /\ pkg'[p] = pkg[p])
                /\ Writer(p) => pkg[p].d \in cut'
           /\ cut \subseteq cut'
    BY DEF BlobInv, Blobs!TypeOK, Blobs!Crash, Blobs!Quiet, NamesGo, Ends, Writer

----------------------------------------------------------------------------
(* Every step keeps the invariant.                                         *)

LEMMA OneRequestStep ==
    ASSUME BlobInv, Blobs!Next
    PROVE  OneRequest'
<1> USE DEF BlobInv, OneRequest, Inside
<1>1. ASSUME NEW s \in Uploads, Blobs!UploadStart(s) \/ Blobs!Prune(s) PROVE OneRequest'
  <2>1. UNCHANGED req /\ \A t \in Uploads : session[t] # "none" => session'[t] # "none"
      BY <1>1 DEF Blobs!TypeOK, Blobs!UploadStart, Blobs!Prune, Blobs!Close
  <2> QED
      BY <2>1
<1>2. ASSUME NEW q \in Requests, Blobs!Request(q) PROVE OneRequest'
  <2>1. CASE Blobs!Lock(q)
      BY <2>1, LockEffect DEF Only, Stays, NamesGo
  <2>2. Blobs!Lock(q) \/ (Only(q) /\ NamesGo /\
            \/ Ends(q)
            \/ /\ req[q].pc = "idle" /\ req'[q].pc = "lock"
               /\ req'[q].s \in Uploads /\ session[req'[q].s] # "none"
            \/ /\ Inside(q) /\ Stays(q) /\ req'[q].pc = "append"
            \/ /\ Inside(q) /\ Stays(q) /\ req[q].digest \in Contents)
      BY <1>2, LoadEffect, AbortEffect, OpenTmpEffect, AppendEffect, HashEffect, StatEffect,
         RenameEffect, GrantEffect DEF Blobs!Request, Renamed
  <2> QED
      BY <2>1, <2>2 DEF Only, Stays, Ends, NamesGo
<1>3. ASSUME NEW p \in Packages, Blobs!Package(p) PROVE OneRequest'
  <2>1. UNCHANGED <<req, session>>
      BY <1>3 DEF Blobs!Package, Blobs!StoreBlob, Blobs!FromFile, Blobs!WriteOpen, Blobs!Write,
         Blobs!WriteFails, Blobs!Move, Blobs!CreateRow
  <2> QED
      BY <2>1
<1>4. ASSUME Blobs!Crash PROVE OneRequest'
    BY <1>4, CrashEffect DEF Ends
<1> QED
    BY <1>1, <1>2, <1>3, <1>4 DEF Blobs!Next

LEMMA OwnPackageStep ==
    ASSUME BlobInv, Blobs!Next
    PROVE  OwnPackage'
<1> USE BlobsAssumed DEF BlobInv, OwnPackage, Writer, Blobs!BlobAssumption
<1>1. ASSUME NEW s \in Uploads, Blobs!UploadStart(s) \/ Blobs!Prune(s) PROVE OwnPackage'
  <2>1. UNCHANGED <<content, path, pkg>>
      BY <1>1 DEF Blobs!UploadStart, Blobs!Prune
  <2> QED
      BY <2>1
<1>2. ASSUME NEW q \in Requests, Blobs!Request(q) PROVE OwnPackage'
  <2>1. CASE Blobs!AppendBody(q)
    <3>1. req[q].s \in Uploads /\ UNCHANGED <<path, pkg>>
        BY <2>1, AppendEffect, SessionOfRequest
    <3>2. \A p \in Packages : content'[p] = content[p]
        BY <2>1, <3>1, AppendEffect
    <3> QED
        BY <3>1, <3>2
  <2>2. CASE Blobs!Rename(q)
    <3>1. UNCHANGED <<content, pkg>> /\ req[q].digest \in Contents /\ req[q].s \in Uploads
        BY <2>2, RenameEffect
    <3>2. CASE Renamed(q)
      <4>1. \A w \in Packages : Writer(w) => pkg[w].fd # req[q].s
          BY <3>1, <3>2 DEF OneName, Renamed
      <4>2. req[q].s \notin Packages
          BY <3>1
      <4> QED
          BY <3>1, <3>2, <4>1, <4>2 DEF Renamed
    <3>3. CASE UNCHANGED path
        BY <3>1, <3>3
    <3> QED
        BY <2>2, <3>2, <3>3, RenameEffect
  <2>3. Blobs!AppendBody(q) \/ Blobs!Rename(q) \/ UNCHANGED <<content, path, pkg>>
      BY <1>2, LoadEffect, LockEffect, AbortEffect, OpenTmpEffect, HashEffect, StatEffect,
         GrantEffect DEF Blobs!Request
  <2>4. CASE UNCHANGED <<content, path, pkg>>
      BY <2>4
  <2> QED
      BY <2>1, <2>2, <2>3, <2>4
<1>3. ASSUME NEW p \in Packages, NEW d \in Contents, Blobs!StoreBlob(p, d) PROVE OwnPackage'
    BY <1>3, StoreBlobEffect DEF OnlyPkg
<1>4. ASSUME NEW p \in Packages, NEW d \in Contents, Blobs!FromFile(p, d) PROVE OwnPackage'
    BY <1>4, FromFileEffect DEF OnlyPkg, OnlyFile
<1>5. ASSUME NEW p \in Packages, Blobs!WriteOpen(p) PROVE OwnPackage'
  <2>1. \A c \in Contents : path[c] = pkg'[p].fd => c = pkg[p].d
      BY <1>5, WriteOpenEffect DEF OneDigest
  <2>2. \A c \in Contents : path'[c] = pkg'[p].fd => c = pkg[p].d
      BY <1>5, <2>1, WriteOpenEffect DEF OnlyName
  <2>3. \A r \in Packages : r # p /\ pkg[r].pc \in {"idle", "open", "move"} =>
            pkg'[p].fd # r /\ \A c \in Contents : path'[c] # r
      BY <1>5, WriteOpenEffect DEF OnlyName
  <2>4. \A r \in Packages : r # p /\ Writer(r) =>
            \A c \in Contents : path'[c] = pkg[r].fd => c = pkg[r].d
      BY <1>5, WriteOpenEffect DEF OnlyName
  <2>5. \A r \in Packages : r # p /\ pkg[r].pc = "move" => content'[r] = content[r]
      BY <1>5, <2>3, WriteOpenEffect DEF OnlyFile
  <2> QED
      BY <1>5, <2>2, <2>3, <2>4, <2>5, WriteOpenEffect DEF OnlyPkg
<1>6. ASSUME NEW p \in Packages, Blobs!Write(p) PROVE OwnPackage'
    BY <1>6, WriteEffect DEF OnlyPkg, OnlyFile
<1>7. ASSUME NEW p \in Packages, Blobs!WriteFails(p) PROVE OwnPackage'
    BY <1>7, WriteFailsEffect DEF OnlyPkg
<1>8. ASSUME NEW p \in Packages, Blobs!Move(p) PROVE OwnPackage'
    BY <1>8, MoveEffect DEF OnlyPkg, OnlyName
<1>9. ASSUME NEW p \in Packages, Blobs!CreateRow(p) PROVE OwnPackage'
    BY <1>9, CreateRowEffect DEF OnlyPkg
<1>10. ASSUME Blobs!Crash PROVE OwnPackage'
  <2>1. UNCHANGED <<content, path>>
      BY <1>10, CrashEffect
  <2>2. \A p \in Packages : pkg'[p].d = pkg[p].d
            /\ (pkg'[p].pc = "done" \/ (pkg[p].pc = "idle" /\ pkg'[p].pc = "idle"))
      BY <1>10, CrashEffect
  <2>3. \A p \in Packages :
            /\ pkg'[p].pc # "idle" => pkg[p].d \in Contents
            /\ pkg'[p].pc = "idle" => \A c \in Contents : path[c] # p
      BY <1>10, <2>2 DEF Blobs!Crash
  <2> QED
      BY <2>1, <2>2, <2>3
<1> QED
    BY <1>1, <1>2, <1>3, <1>4, <1>5, <1>6, <1>7, <1>8, <1>9, <1>10 DEF Blobs!Next, Blobs!Package

LEMMA OneNameStep ==
    ASSUME BlobInv, Blobs!Next
    PROVE  OneName' /\ OneDigest'
<1> USE BlobsAssumed DEF Blobs!BlobAssumption
<1> DEFINE Clear(s) == /\ \A c \in Contents : path[c] # s
                       /\ \A w \in Packages : Writer(w) => pkg[w].fd # s
<1>1. /\ \A s \in Uploads : session[s] = "none" => ~named[s]
      /\ \A s \in Uploads : session[s] = "none" \/ named[s] => Clear(s)
      /\ \A q \in Requests : req[q].pc = "append" => Clear(req[q].s)
      /\ \A q \in Requests : req[q].pc \in {"stat", "rename"} /\ named[req[q].s] =>
             content[req[q].s] = req[q].digest
    BY SessionOfRequest DEF BlobInv, OneName
<1>2. ASSUME NEW s \in Uploads, Blobs!UploadStart(s) \/ Blobs!Prune(s)
      PROVE  OneName' /\ OneDigest'
  <2>1. UNCHANGED <<content, path, pkg, req>>
      BY <1>2 DEF Blobs!UploadStart, Blobs!Prune
  <2>2. \A t \in Uploads :
          /\ session'[t] = "none" => session[t] = "none" /\ ~named'[t]
          /\ named'[t] => named[t] \/ session[t] = "none"
    <3>1. CASE Blobs!UploadStart(s)
        BY <1>1, <3>1 DEF BlobInv, Blobs!TypeOK, Blobs!UploadStart
    <3>2. CASE Blobs!Prune(s)
      <4>1. /\ session'[s] = "closed" /\ ~named'[s]
            /\ \A t \in Uploads : t # s => session'[t] = session[t] /\ named'[t] = named[t]
          BY <3>2, UnlinkFields DEF BlobInv, Blobs!Prune
      <4> QED
          BY <1>1, <4>1
    <3> QED
        BY <1>2, <3>1, <3>2
  <2>3. \A q \in Requests : req[q].pc # "idle" => session[req[q].s] # "none"
      BY SessionOfRequest
  <2>4. \A q \in Requests : req[q].pc \in {"stat", "rename"} /\ named'[req[q].s] =>
             content[req[q].s] = req[q].digest
      BY <1>1, <2>2, <2>3, SessionOfRequest
  <2> QED
      BY <1>1, <2>1, <2>2, <2>4 DEF OneName, OneDigest, BlobInv, Writer
<1>3. ASSUME NEW q \in Requests, Blobs!Request(q) PROVE OneName' /\ OneDigest'
  <2>1. CASE Blobs!Rename(q)
    <3>1. /\ Only(q) /\ NamesGo /\ UNCHANGED <<content, pkg>> /\ req[q].pc = "rename"
          /\ req[q].digest \in Contents /\ req[q].s \in Uploads
          /\ (Ends(q) /\ UNCHANGED path) \/ Renamed(q)
        BY <2>1, RenameEffect
    <3>2. CASE Ends(q) /\ UNCHANGED path
        BY <1>1, <3>1, <3>2 DEF OneName, OneDigest, BlobInv, Writer, Only, Ends, NamesGo
    <3>3. CASE Renamed(q)
      <4>1. \A r \in Requests : r # q /\ req[r].pc = "append" => req[r].s # req[q].s
          BY <3>1 DEF BlobInv, OneRequest, Inside
      <4>2. \A t \in Uploads : t # req[q].s /\ Clear(t) => Clear(t)'
          BY <3>1, <3>3 DEF Renamed, Writer
      <4>3. Clear(req[q].s) /\ session[req[q].s] # "none" /\ ~named'[req[q].s]
          BY <1>1, <3>1, <3>3, SessionOfRequest DEF Renamed
      <4>4. OneDigest'
          BY <3>1, <3>3, <4>3 DEF OneDigest, BlobInv, Renamed
      <4>5. \A t \in Uploads : session'[t] = "none" \/ named'[t] => Clear(t)'
          BY <1>1, <3>1, <4>2, <4>3 DEF NamesGo
      <4>6. \A r \in Requests : req'[r].pc = "append" => r # q /\ req'[r] = req[r]
          BY <3>1, <3>3 DEF Renamed, Only
      <4>7. \A r \in Requests : req'[r].pc = "append" => Clear(req[r].s)'
          BY <1>1, <4>1, <4>2, <4>6, SessionOfRequest
      <4>8. \A r \in Requests : req'[r].pc \in {"stat", "rename"} => r # q /\ req'[r] = req[r]
          BY <3>1, <3>3 DEF Renamed, Only
      <4>9. \A r \in Requests : req'[r].pc \in {"stat", "rename"} /\ named'[req'[r].s] =>
                content'[req'[r].s] = req'[r].digest
          BY <1>1, <3>1, <4>8, SessionOfRequest DEF NamesGo
      <4>10. \A t \in Uploads : session'[t] = "none" => ~named'[t]
          BY <1>1, <3>1 DEF NamesGo
      <4> QED
          BY <4>4, <4>5, <4>7, <4>9, <4>10 DEF OneName, Writer
    <3> QED
        BY <3>1, <3>2, <3>3
  <2>2. CASE Blobs!AppendBody(q)
    <3>1. /\ Only(q) /\ NamesGo /\ UNCHANGED <<path, pkg>> /\ req[q].pc = "append"
          /\ \A i \in Uploads \cup Packages : i # req[q].s => content'[i] = content[i]
          /\ Ends(q) \/ (Stays(q) /\ req'[q].pc = "hash")
        BY <2>2, AppendEffect
    <3>2. \A r \in Requests : r # q /\ req[r].pc \in {"stat", "rename"} =>
              req[r].s # req[q].s /\ content'[req[r].s] = content[req[r].s]
        BY <3>1, SessionOfRequest DEF BlobInv, OneRequest, Inside
    <3> QED
        BY <1>1, <3>1, <3>2, SessionOfRequest
        DEF OneName, OneDigest, BlobInv, Writer, Only, Ends, Stays, NamesGo
  <2>3. CASE Blobs!OpenTmp(q)
      BY <1>1, <2>3, OpenTmpEffect, SessionOfRequest
      DEF OneName, OneDigest, BlobInv, Writer, Only, Ends, Stays, NamesGo, Inside
  <2>4. CASE Blobs!Hash(q)
      BY <1>1, <2>4, HashEffect, SessionOfRequest
      DEF OneName, OneDigest, BlobInv, Writer, Only, Ends, Stays, NamesGo
  <2>5. CASE Blobs!StatBlob(q)
      BY <1>1, <2>5, StatEffect, SessionOfRequest
      DEF OneName, OneDigest, BlobInv, Writer, Only, Ends, Stays, NamesGo
  <2>6. CASE Blobs!Load(q) \/ Blobs!Lock(q)
      BY <1>1, <2>6, LoadEffect, LockEffect
      DEF OneName, OneDigest, BlobInv, Writer, Only, NamesGo
  <2>7. CASE Blobs!Abort(q) \/ Blobs!BodyBreaks(q) \/ Blobs!RenameFails(q) \/ Blobs!Grant(q)
      BY <1>1, <2>7, AbortEffect, GrantEffect
      DEF OneName, OneDigest, BlobInv, Writer, Only, Ends, NamesGo
  <2> QED
      BY <1>3, <2>1, <2>2, <2>3, <2>4, <2>5, <2>6, <2>7 DEF Blobs!Request
<1>4. ASSUME UNCHANGED <<session, named, req>>, OneDigest',
             \A s \in Uploads : Clear(s) => Clear(s)' /\ content'[s] = content[s]
      PROVE  OneName' /\ OneDigest'
  <2>1. \A r \in Requests : req[r].pc \in {"stat", "rename"} /\ named[req[r].s] =>
            req[r].s \in Uploads /\ Clear(req[r].s)
      BY <1>1, SessionOfRequest
  <2> QED
      BY <1>1, <1>4, <2>1 DEF OneName, Writer
<1>5. ASSUME NEW p \in Packages, Blobs!Package(p) PROVE OneName' /\ OneDigest'
  <2> USE <1>4 DEF OneDigest, BlobInv, Writer
  <2>1. ASSUME NEW d \in Contents, Blobs!StoreBlob(p, d) PROVE OneName' /\ OneDigest'
      BY <2>1, StoreBlobEffect DEF OnlyPkg
  <2>2. ASSUME NEW d \in Contents, Blobs!FromFile(p, d) PROVE OneName' /\ OneDigest'
      BY <2>2, FromFileEffect DEF OnlyPkg, OnlyFile
  <2>3. CASE Blobs!WriteOpen(p)
    <3>1. \A c \in Contents : path[c] # p
        BY <2>3, WriteOpenEffect DEF OwnPackage
    <3>2. OneDigest'
        BY <2>3, <3>1, WriteOpenEffect DEF OnlyName
    <3>3. \A s \in Uploads : Clear(s) => pkg'[p].fd # s
        BY <2>3, WriteOpenEffect
    <3>4. \A s \in Uploads : Clear(s) => Clear(s)' /\ content'[s] = content[s]
        BY <2>3, <3>3, WriteOpenEffect DEF OnlyPkg, OnlyFile, OnlyName
    <3> QED
        BY <2>3, <3>2, <3>4, WriteOpenEffect
  <2>4. CASE Blobs!Write(p)
      BY <2>4, WriteEffect DEF OnlyPkg, OnlyFile
  <2>5. CASE Blobs!WriteFails(p)
      BY <2>5, WriteFailsEffect DEF OnlyPkg
  <2>6. CASE Blobs!Move(p)
    <3>1. \A c \in Contents : path[c] # p
        BY <2>6, MoveEffect DEF OwnPackage
    <3>2. OneDigest'
        BY <2>6, <3>1, MoveEffect DEF OnlyName
    <3> QED
        BY <2>6, <3>2, MoveEffect DEF OnlyPkg, OnlyName
  <2>7. CASE Blobs!CreateRow(p)
      BY <2>7, CreateRowEffect DEF OnlyPkg
  <2> QED
      BY <1>5, <2>1, <2>2, <2>3, <2>4, <2>5, <2>6, <2>7 DEF Blobs!Package
<1>6. ASSUME Blobs!Crash PROVE OneName' /\ OneDigest'
  <2>1. \A q \in Requests : req'[q].pc = "idle"
      BY <1>6, CrashEffect DEF Ends
  <2>2. \A w \in Packages : ~(Writer(w)')
      BY <1>6, CrashEffect DEF Writer
  <2> QED
      BY <1>1, <1>6, <2>1, <2>2, CrashEffect DEF OneName, OneDigest, BlobInv, NamesGo
<1> QED
    BY <1>2, <1>3, <1>5, <1>6 DEF Blobs!Next

LEMMA WholeFilesStep ==
    ASSUME BlobInv, Blobs!Next
    PROVE  WholeFiles'
<1> USE BlobsAssumed DEF Blobs!BlobAssumption, BlobInv, WholeFiles, Writer
<1>1. ASSUME NEW s \in Uploads, Blobs!UploadStart(s) \/ Blobs!Prune(s) PROVE WholeFiles'
  <2>1. UNCHANGED <<content, path, pkg, cut>>
      BY <1>1 DEF Blobs!UploadStart, Blobs!Prune
  <2> QED
      BY <2>1
<1>2. ASSUME NEW q \in Requests, Blobs!Request(q) PROVE WholeFiles'
  <2>1. CASE Blobs!Rename(q)
    <3>1. /\ UNCHANGED <<content, pkg, cut>> /\ req[q].pc = "rename"
          /\ req[q].s \in Uploads
          /\ UNCHANGED path \/ Renamed(q)
        BY <2>1, RenameEffect
    <3>2. named[req[q].s] => content[req[q].s] = req[q].digest
        BY <3>1 DEF OneName
    <3> QED
        BY <3>1, <3>2 DEF Renamed
  <2>2. CASE Blobs!AppendBody(q)
    <3>1. /\ UNCHANGED <<path, pkg, cut>> /\ req[q].pc = "append" /\ req[q].s \in Uploads
          /\ \A i \in Uploads \cup Packages : i # req[q].s => content'[i] = content[i]
        BY <2>2, AppendEffect, SessionOfRequest
    <3>2. \A c \in Contents : path[c] # Blobs!NoFile => content'[path[c]] = content[path[c]]
        BY <3>1 DEF OneName, Blobs!TypeOK
    <3> QED
        BY <3>1, <3>2
  <2>3. Blobs!AppendBody(q) \/ Blobs!Rename(q) \/ UNCHANGED <<content, path, pkg, cut>>
      BY <1>2, LoadEffect, LockEffect, AbortEffect, OpenTmpEffect, HashEffect, StatEffect,
         GrantEffect DEF Blobs!Request
  <2>4. CASE UNCHANGED <<content, path, pkg, cut>>
      BY <2>4
  <2> QED
      BY <2>1, <2>2, <2>3, <2>4
<1>3. ASSUME NEW p \in Packages, NEW d \in Contents, Blobs!StoreBlob(p, d) PROVE WholeFiles'
    BY <1>3, StoreBlobEffect DEF OnlyPkg
<1>4. ASSUME NEW p \in Packages, NEW d \in Contents, Blobs!FromFile(p, d) PROVE WholeFiles'
  <2>1. \A c \in Contents : path[c] # Blobs!NoFile => content'[path[c]] = content[path[c]]
      BY <1>4, FromFileEffect DEF OwnPackage, OnlyFile, Blobs!TypeOK
  <2> QED
      BY <1>4, <2>1, FromFileEffect DEF OnlyPkg
<1>5. ASSUME NEW p \in Packages, Blobs!WriteOpen(p) PROVE WholeFiles'
  <2>1. \A c \in Contents : path'[c] # pkg'[p].fd => c # pkg[p].d /\ path'[c] = path[c]
      BY <1>5, WriteOpenEffect DEF OnlyName
  <2>2. \A c \in Contents : path'[c] # pkg'[p].fd /\ path[c] # Blobs!NoFile =>
            content'[path[c]] = content[path[c]]
      BY <1>5, <2>1, WriteOpenEffect DEF OnlyFile, Blobs!TypeOK
  <2> QED
      BY <1>5, <2>1, <2>2, WriteOpenEffect DEF OnlyPkg
<1>6. ASSUME NEW p \in Packages, Blobs!Write(p) PROVE WholeFiles'
  <2>1. \A c \in Contents : path[c] = pkg[p].fd => c = pkg[p].d
      BY <1>6, WriteEffect DEF OwnPackage
  <2>2. \A c \in Contents : path[c] # pkg[p].fd /\ path[c] # Blobs!NoFile =>
            content'[path[c]] = content[path[c]]
      BY <1>6, WriteEffect DEF OnlyFile, Blobs!TypeOK
  <2> QED
      BY <1>6, <2>1, <2>2, WriteEffect DEF OnlyPkg
<1>7. ASSUME NEW p \in Packages, Blobs!WriteFails(p) PROVE WholeFiles'
  <2>1. \A c \in Contents : path[c] = pkg[p].fd => c = pkg[p].d
      BY <1>7, WriteFailsEffect DEF OwnPackage
  <2> QED
      BY <1>7, <2>1, WriteFailsEffect DEF OnlyPkg
<1>8. ASSUME NEW p \in Packages, Blobs!Move(p) PROVE WholeFiles'
  <2>1. content[p] = pkg[p].d
      BY <1>8, MoveEffect DEF OwnPackage
  <2>2. \A c \in Contents : c # pkg[p].d => path'[c] = path[c]
      BY <1>8, MoveEffect DEF OnlyName
  <2>3. \A w \in Packages : Writer(w) => w # p /\ pkg'[w] = pkg[w]
      BY <1>8, MoveEffect DEF OnlyPkg
  <2> QED
      BY <1>8, <2>1, <2>2, <2>3, MoveEffect
<1>9. ASSUME NEW p \in Packages, Blobs!CreateRow(p) PROVE WholeFiles'
    BY <1>9, CreateRowEffect DEF OnlyPkg
<1>10. ASSUME Blobs!Crash PROVE WholeFiles'
  <2>1. UNCHANGED <<content, path>> /\ cut \subseteq cut'
      BY <1>10, CrashEffect
  <2>2. \A p \in Packages : pkg[p].pc = "write" => pkg[p].d \in cut'
      BY <1>10, CrashEffect
  <2>3. \A p \in Packages, c \in Contents :
            pkg[p].pc = "write" /\ pkg[p].fd = path[c] => c = pkg[p].d
      BY DEF OwnPackage
  <2> QED
      BY <2>1, <2>2, <2>3
<1> QED
    BY <1>1, <1>2, <1>3, <1>4, <1>5, <1>6, <1>7, <1>8, <1>9, <1>10 DEF Blobs!Next, Blobs!Package

\* A name that leads to a file always will.
LEMMA NamesStay ==
    ASSUME BlobInv, Blobs!Next
    PROVE  \A c \in Contents : path[c] # Blobs!NoFile => path'[c] # Blobs!NoFile
<1> USE BlobsAssumed DEF Blobs!BlobAssumption
<1>1. ASSUME NEW s \in Uploads, Blobs!UploadStart(s) \/ Blobs!Prune(s) PROVE UNCHANGED path
    BY <1>1 DEF Blobs!UploadStart, Blobs!Prune
<1>2. ASSUME NEW q \in Requests, Blobs!Request(q)
      PROVE  \A c \in Contents : path[c] # Blobs!NoFile => path'[c] # Blobs!NoFile
  <2>1. CASE Blobs!Rename(q)
      BY <2>1, RenameEffect DEF Renamed
  <2>2. Blobs!Rename(q) \/ UNCHANGED path
      BY <1>2, LoadEffect, LockEffect, AbortEffect, OpenTmpEffect, AppendEffect, HashEffect,
         StatEffect, GrantEffect DEF Blobs!Request
  <2> QED
      BY <2>1, <2>2
<1>3. ASSUME NEW p \in Packages, Blobs!Package(p)
      PROVE  \A c \in Contents : path[c] # Blobs!NoFile => path'[c] # Blobs!NoFile
  <2>1. CASE Blobs!WriteOpen(p)
      BY <2>1, WriteOpenEffect DEF OnlyName
  <2>2. CASE Blobs!Move(p)
      BY <2>2, MoveEffect DEF OnlyName
  <2>3. Blobs!WriteOpen(p) \/ Blobs!Move(p) \/ UNCHANGED path
      BY <1>3 DEF Blobs!Package, Blobs!StoreBlob, Blobs!FromFile, Blobs!Write,
         Blobs!WriteFails, Blobs!CreateRow
  <2> QED
      BY <2>1, <2>2, <2>3
<1>4. ASSUME Blobs!Crash PROVE UNCHANGED path
    BY <1>4 DEF Blobs!Crash
<1> QED
    BY <1>1, <1>2, <1>3, <1>4 DEF Blobs!Next

LEMMA ReferredStep ==
    ASSUME BlobInv, Blobs!Next
    PROVE  Referred'
<1> USE NamesStay, BlobsAssumed DEF BlobInv, Referred, Blobs!BlobAssumption
<1>0. /\ \A c \in known : path'[c] # Blobs!NoFile
      /\ \A q \in Requests : req[q].pc = "grant" =>
             req[q].digest \in Contents /\ path'[req[q].digest] # Blobs!NoFile
      /\ \A p \in Packages : pkg[p].pc \in {"write", "create"} =>
             pkg[p].d \in Contents /\ path'[pkg[p].d] # Blobs!NoFile
    BY DEF OneRequest, OwnPackage, Blobs!TypeOK
<1>1. ASSUME NEW s \in Uploads, Blobs!UploadStart(s) \/ Blobs!Prune(s) PROVE Referred'
  <2>1. UNCHANGED <<known, req, pkg>>
      BY <1>1 DEF Blobs!UploadStart, Blobs!Prune
  <2> QED
      BY <1>0, <2>1
<1>2. ASSUME NEW q \in Requests, Blobs!Request(q) PROVE Referred'
  <2>1. /\ Only(q) /\ UNCHANGED pkg
        /\ \A c \in known' : c \in known \/ (req[q].pc = "grant" /\ c = req[q].digest)
        /\ req'[q].pc = "grant" => path'[req'[q].digest] # Blobs!NoFile
    <3>1. CASE Blobs!Grant(q)
        BY <3>1, GrantEffect DEF Ends
    <3>2. CASE Blobs!Rename(q)
      <4>1. /\ Only(q) /\ UNCHANGED <<pkg, known>> /\ req[q].s \in Uploads
            /\ (Ends(q) /\ UNCHANGED path) \/ Renamed(q)
          BY <3>2, RenameEffect
      <4>2. req'[q].pc = "grant" => path'[req'[q].digest] = req[q].s
          BY <4>1 DEF Renamed, Stays, Ends
      <4> QED
          BY <4>1, <4>2
    <3>3. CASE Blobs!StatBlob(q)
        BY <3>3, StatEffect DEF Ends, Stays
    <3>4. CASE Blobs!Load(q) \/ Blobs!Lock(q) \/ Blobs!Abort(q) \/ Blobs!BodyBreaks(q)
               \/ Blobs!RenameFails(q) \/ Blobs!OpenTmp(q) \/ Blobs!AppendBody(q)
               \/ Blobs!Hash(q)
        BY <3>4, LoadEffect, LockEffect, AbortEffect, OpenTmpEffect, AppendEffect, HashEffect
        DEF Ends
    <3> QED
        BY <1>2, <3>1, <3>2, <3>3, <3>4 DEF Blobs!Request
  <2> QED
      BY <1>0, <2>1 DEF Only
<1>3. ASSUME NEW p \in Packages, Blobs!Package(p) PROVE Referred'
  <2>1. /\ OnlyPkg(p) /\ UNCHANGED req
        /\ \A c \in known' : c \in known \/ (pkg[p].pc = "create" /\ c = pkg[p].d)
        /\ pkg'[p].pc \in {"write", "create"} => path'[pkg'[p].d] # Blobs!NoFile
    <3>1. ASSUME NEW d \in Contents, Blobs!StoreBlob(p, d) \/ Blobs!FromFile(p, d)
          PROVE  /\ OnlyPkg(p) /\ UNCHANGED <<req, known>>
                 /\ pkg'[p].pc \in {"write", "create"} => path'[pkg'[p].d] # Blobs!NoFile
        BY <3>1, StoreBlobEffect, FromFileEffect
    <3>2. CASE Blobs!Write(p)
        BY <3>2, WriteEffect
    <3>3. CASE Blobs!Move(p)
        BY <3>3, MoveEffect
    <3>4. CASE Blobs!CreateRow(p)
        BY <3>4, CreateRowEffect
    <3>5. CASE Blobs!WriteOpen(p) \/ Blobs!WriteFails(p)
        BY <3>5, WriteOpenEffect, WriteFailsEffect
    <3> QED
        BY <1>3, <3>1, <3>2, <3>3, <3>4, <3>5 DEF Blobs!Package
  <2> QED
      BY <1>0, <2>1 DEF OnlyPkg
<1>4. ASSUME Blobs!Crash PROVE Referred'
    BY <1>0, <1>4, CrashEffect DEF Ends
<1> QED
    BY <1>1, <1>2, <1>3, <1>4 DEF Blobs!Next

\* The shape of the variables, in parts.
ReqType ==
    req \in [Requests -> [pc : {"idle", "lock", "open", "append", "hash", "stat", "rename",
                               "grant"},
                         s : Uploads \cup {Blobs!NoFile},
                         digest : Contents \cup {Blobs!NoDigest}]]
PkgType ==
    pkg \in [Packages -> [pc : {"idle", "open", "write", "move", "create", "done"},
                         d : Contents \cup {Blobs!NoDigest},
                         fd : Uploads \cup Packages \cup {Blobs!NoFile}]]
SessionType == session \in [Uploads -> {"none", "open", "closed"}] /\ named \in [Uploads -> BOOLEAN]
PathType    == path \in [Contents -> Uploads \cup Packages \cup {Blobs!NoFile}]
ContentType == content \in [Uploads \cup Packages -> Seq(BlobChunks)]

LEMMA BlobTypeParts ==
    Blobs!TypeOK <=> ReqType /\ PkgType /\ SessionType /\ PathType /\ ContentType
                       /\ known \subseteq Contents /\ cut \subseteq Contents
                       /\ bFaults \in 0 .. BlobFaults
    BY DEF Blobs!TypeOK, ReqType, PkgType, SessionType, PathType, ContentType

LEMMA ReqTypeStep ==
    ASSUME BlobInv, Blobs!Next
    PROVE  ReqType'
<1>0. ReqType
    BY BlobTypeParts DEF BlobInv
<1>1. ASSUME NEW q \in Requests, NEW pc \in {"open", "append", "hash", "stat", "rename", "grant"},
             Blobs!Goto(q, pc)
      PROVE  ReqType'
    BY <1>0, <1>1 DEF ReqType, Blobs!Goto
<1>2. ASSUME NEW q \in Requests, Blobs!Done(q) PROVE ReqType'
    BY <1>0, <1>2 DEF ReqType, Blobs!Done, Blobs!Quiet
<1>3. ASSUME NEW q \in Requests, Blobs!Load(q) PROVE ReqType'
  <2>1. PICK s \in Uploads, d \in Contents \cup {Blobs!NoDigest} :
            req' = [req EXCEPT ![q] = [pc |-> "lock", s |-> s, digest |-> d]]
      BY <1>3 DEF Blobs!Load
  <2> QED
      BY <1>0, <2>1 DEF ReqType
<1>4. ASSUME NEW q \in Requests, Blobs!Request(q) PROVE ReqType'
  <2>1. Blobs!Load(q) \/ Blobs!Done(q)
          \/ \E pc \in {"open", "append", "hash", "stat", "rename", "grant"} : Blobs!Goto(q, pc)
      BY <1>4 DEF Blobs!Request, Blobs!Lock, Blobs!Abort, Blobs!OpenTmp, Blobs!AppendBody,
         Blobs!BodyBreaks, Blobs!Hash, Blobs!StatBlob, Blobs!Rename, Blobs!RenameFails,
         Blobs!Grant
  <2> QED
      BY <1>1, <1>2, <1>3, <2>1
<1>5. ASSUME Blobs!Crash PROVE ReqType'
    BY <1>5 DEF Blobs!Crash, Blobs!Quiet, ReqType
<1>6. (\E q \in Requests : Blobs!Request(q)) \/ Blobs!Crash \/ UNCHANGED req
    BY DEF Blobs!Next, Blobs!Package, Blobs!UploadStart, Blobs!Prune, Blobs!StoreBlob,
       Blobs!FromFile, Blobs!WriteOpen, Blobs!Write, Blobs!WriteFails, Blobs!Move,
       Blobs!CreateRow
<1> QED
    BY <1>0, <1>4, <1>5, <1>6 DEF ReqType

LEMMA PkgTypeStep ==
    ASSUME BlobInv, Blobs!Next
    PROVE  PkgType'
<1>0. PkgType
    BY BlobTypeParts DEF BlobInv
<1>1. ASSUME NEW p \in Packages, NEW fd \in Uploads \cup Packages,
             pkg' = [pkg EXCEPT ![p] = [@ EXCEPT !.pc = "write", !.fd = fd]]
      PROVE  PkgType'
  <2>1. [pkg[p] EXCEPT !.pc = "write", !.fd = fd]
            \in [pc : {"idle", "open", "write", "move", "create", "done"},
                d : Contents \cup {Blobs!NoDigest},
                fd : Uploads \cup Packages \cup {Blobs!NoFile}]
      BY <1>0 DEF PkgType
  <2> QED
      BY <1>0, <1>1, <2>1 DEF PkgType
<1>9. ASSUME NEW p \in Packages, NEW pc \in {"create", "done"}, pkg' = [pkg EXCEPT ![p].pc = pc]
      PROVE  PkgType'
    BY <1>0, <1>9 DEF PkgType
<1>2. ASSUME NEW p \in Packages, NEW d \in Contents,
             NEW pc \in {"open", "move", "create"}, NEW fd \in {p, Blobs!NoFile},
             pkg' = [pkg EXCEPT ![p] = [pc |-> pc, d |-> d, fd |-> fd]]
      PROVE  PkgType'
    BY <1>0, <1>2 DEF PkgType
<1>3. ASSUME NEW p \in Packages, NEW d \in Contents, Blobs!StoreBlob(p, d) PROVE PkgType'
    BY <1>2, <1>3 DEF Blobs!StoreBlob
<1>4. ASSUME NEW p \in Packages, NEW d \in Contents, Blobs!FromFile(p, d) PROVE PkgType'
    BY <1>2, <1>4 DEF Blobs!FromFile
<1>5. ASSUME NEW p \in Packages, Blobs!WriteOpen(p) PROVE PkgType'
  <2>1. PICK fd \in Uploads \cup Packages :
            fd = IF path[pkg[p].d] = Blobs!NoFile THEN p ELSE path[pkg[p].d]
      BY <1>5, WriteOpenEffect
  <2>2. pkg' = [pkg EXCEPT ![p] = [@ EXCEPT !.pc = "write", !.fd = fd]]
      BY <1>5, <2>1 DEF Blobs!WriteOpen
  <2> QED
      BY <1>1, <2>2
<1>6. ASSUME NEW p \in Packages,
             Blobs!Write(p) \/ Blobs!WriteFails(p) \/ Blobs!Move(p) \/ Blobs!CreateRow(p)
      PROVE  PkgType'
    BY <1>9, <1>6 DEF Blobs!Write, Blobs!WriteFails, Blobs!Move, Blobs!CreateRow
<1>7. ASSUME Blobs!Crash PROVE PkgType'
    BY <1>0, <1>7 DEF Blobs!Crash, PkgType
<1>8. (\E p \in Packages : Blobs!Package(p)) \/ Blobs!Crash \/ UNCHANGED pkg
    BY DEF Blobs!Next, Blobs!UploadStart, Blobs!Prune, Blobs!Request, Blobs!Load, Blobs!Lock,
       Blobs!Abort, Blobs!OpenTmp, Blobs!AppendBody, Blobs!BodyBreaks, Blobs!Hash,
       Blobs!StatBlob, Blobs!Rename, Blobs!RenameFails, Blobs!Grant
<1> QED
    BY <1>0, <1>3, <1>4, <1>5, <1>6, <1>7, <1>8 DEF PkgType, Blobs!Package

LEMMA SessionTypeStep ==
    ASSUME BlobInv, Blobs!Next
    PROVE  SessionType'
<1>0. SessionType
    BY BlobTypeParts DEF BlobInv
<1>1. ASSUME NEW s, session' = session \/ Blobs!Close(s), named' = named \/ Blobs!Unlink(s)
      PROVE  SessionType'
    BY <1>0, <1>1 DEF SessionType, Blobs!Close, Blobs!Unlink
<1>2. ASSUME NEW s \in Uploads, Blobs!UploadStart(s) PROVE SessionType'
    BY <1>0, <1>2 DEF SessionType, Blobs!UploadStart
<1>3. ASSUME NEW s \in Uploads, Blobs!Prune(s) PROVE SessionType'
    BY <1>1, <1>3 DEF Blobs!Prune
<1>4. ASSUME NEW q \in Requests, Blobs!Request(q) PROVE SessionType'
    BY <1>1, <1>4
    DEF Blobs!Request, Blobs!Load, Blobs!Lock, Blobs!Abort, Blobs!OpenTmp, Blobs!AppendBody,
        Blobs!BodyBreaks, Blobs!Hash, Blobs!StatBlob, Blobs!Rename, Blobs!RenameFails,
        Blobs!Grant
<1>5. ASSUME Blobs!Crash PROVE SessionType'
    BY <1>0, <1>5 DEF Blobs!Crash, SessionType
<1>6. ASSUME NEW p \in Packages, Blobs!Package(p) PROVE SessionType'
    BY <1>0, <1>6
    DEF Blobs!Package, Blobs!StoreBlob, Blobs!FromFile, Blobs!WriteOpen, Blobs!Write,
        Blobs!WriteFails, Blobs!Move, Blobs!CreateRow, SessionType
<1> QED
    BY <1>2, <1>3, <1>4, <1>5, <1>6 DEF Blobs!Next

LEMMA FileTypeStep ==
    ASSUME BlobInv, Blobs!Next
    PROVE  PathType' /\ ContentType'
<1> USE BlobsAssumed DEF Blobs!BlobAssumption
<1>0. PathType /\ ContentType
    BY BlobTypeParts DEF BlobInv
<1>a. << >> \in Seq(BlobChunks)
    OBVIOUS
<1>1. ASSUME NEW q \in Requests, Blobs!Request(q) PROVE PathType' /\ ContentType'
  <2>1. CASE Blobs!Rename(q)
      BY <1>0, <2>1, RenameEffect DEF Blobs!Rename, PathType, ContentType
  <2>2. CASE Blobs!AppendBody(q)
    <3>1. req[q].s \in Uploads /\ UNCHANGED path
        BY <2>2, AppendEffect, SessionOfRequest
    <3>2. PICK c \in {<<k>> : k \in BlobChunks} \cup {<< >>} :
              content' = [content EXCEPT ![req[q].s] = @ \o c]
        BY <2>2 DEF Blobs!AppendBody
    <3>3. \A k \in BlobChunks : <<k>> \in Seq(BlobChunks)
        OBVIOUS
    <3>4. c \in Seq(BlobChunks) /\ content[req[q].s] \in Seq(BlobChunks)
        BY <1>0, <1>a, <3>1, <3>3 DEF ContentType
    <3>5. content[req[q].s] \o c \in Seq(BlobChunks)
        BY <3>4
    <3> QED
        BY <1>0, <3>1, <3>2, <3>5 DEF PathType, ContentType
  <2>3. Blobs!AppendBody(q) \/ Blobs!Rename(q) \/ UNCHANGED <<content, path>>
      BY <1>1, LoadEffect, LockEffect, AbortEffect, OpenTmpEffect, HashEffect, StatEffect,
         GrantEffect DEF Blobs!Request
  <2> QED
      BY <1>0, <2>1, <2>2, <2>3 DEF PathType, ContentType
<1>2. ASSUME NEW p \in Packages, NEW d \in Contents, Blobs!FromFile(p, d)
      PROVE  PathType' /\ ContentType'
    BY <1>0, <1>2 DEF Blobs!FromFile, PathType, ContentType
<1>3. ASSUME NEW p \in Packages, Blobs!WriteOpen(p) PROVE PathType' /\ ContentType'
  <2>1. PICK fd \in Uploads \cup Packages :
            /\ fd = IF path[pkg[p].d] = Blobs!NoFile THEN p ELSE path[pkg[p].d]
            /\ path' = [path EXCEPT ![pkg[p].d] = fd] /\ content' = [content EXCEPT ![fd] = << >>]
      BY <1>3, WriteOpenEffect DEF Blobs!WriteOpen
  <2> QED
      BY <1>0, <1>a, <2>1 DEF PathType, ContentType
<1>4. ASSUME NEW p \in Packages, Blobs!Write(p) PROVE PathType' /\ ContentType'
    BY <1>0, <1>4, WriteEffect DEF Blobs!Write, PathType, ContentType
<1>5. ASSUME NEW p \in Packages, Blobs!Move(p) PROVE PathType' /\ ContentType'
    BY <1>0, <1>5 DEF Blobs!Move, PathType, ContentType
<1>6. \/ \E q \in Requests : Blobs!Request(q)
      \/ \E p \in Packages : \/ \E d \in Contents : Blobs!FromFile(p, d)
                             \/ Blobs!WriteOpen(p) \/ Blobs!Write(p) \/ Blobs!Move(p)
      \/ UNCHANGED <<content, path>>
    BY DEF Blobs!Next, Blobs!Package, Blobs!UploadStart, Blobs!Prune, Blobs!StoreBlob,
       Blobs!WriteFails, Blobs!CreateRow, Blobs!Crash
<1>7. CASE UNCHANGED <<content, path>>
    BY <1>0, <1>7 DEF PathType, ContentType
<1> QED
    BY <1>1, <1>2, <1>3, <1>4, <1>5, <1>6, <1>7

LEMMA BlobTypeStep ==
    ASSUME BlobInv, Blobs!Next
    PROVE  Blobs!TypeOK'
<1>0. Blobs!TypeOK
    BY DEF BlobInv
<1>1. known' \subseteq Contents
  <2>1. ASSUME NEW q \in Requests, Blobs!Request(q) PROVE known' \subseteq Contents
      BY <1>0, <2>1, LoadEffect, LockEffect, AbortEffect, OpenTmpEffect, AppendEffect, HashEffect,
         StatEffect, RenameEffect, GrantEffect DEF Blobs!Request, Blobs!TypeOK
  <2>2. ASSUME NEW p \in Packages, Blobs!CreateRow(p) PROVE known' \subseteq Contents
      BY <1>0, <2>2, CreateRowEffect DEF Blobs!TypeOK
  <2>3. \/ \E q \in Requests : Blobs!Request(q)
        \/ \E p \in Packages : Blobs!CreateRow(p)
        \/ UNCHANGED known
      BY DEF Blobs!Next, Blobs!Package, Blobs!UploadStart, Blobs!Prune, Blobs!StoreBlob,
         Blobs!FromFile, Blobs!WriteOpen, Blobs!Write, Blobs!WriteFails, Blobs!Move, Blobs!Crash
  <2> QED
      BY <1>0, <2>1, <2>2, <2>3 DEF Blobs!TypeOK
<1>2. cut' \subseteq Contents
  <2>1. \A p \in Packages : pkg[p].pc = "write" => pkg[p].d \in Contents
      BY DEF BlobInv, OwnPackage
  <2>2. cut' \subseteq cut \cup {pkg[p].d : p \in {w \in Packages : pkg[w].pc = "write"}}
    <3>1. CASE Blobs!Crash
        BY <3>1 DEF Blobs!Crash
    <3>2. ASSUME NEW p \in Packages, Blobs!WriteFails(p)
          PROVE  cut' \subseteq cut \cup {pkg[w].d : w \in {w \in Packages : pkg[w].pc = "write"}}
        BY <3>2 DEF Blobs!WriteFails
    <3>3. Blobs!Crash \/ (\E p \in Packages : Blobs!WriteFails(p)) \/ UNCHANGED cut
        BY DEF Blobs!Next, Blobs!Package, Blobs!Request, Blobs!UploadStart, Blobs!Prune,
           Blobs!StoreBlob, Blobs!FromFile, Blobs!WriteOpen, Blobs!Write, Blobs!Move,
           Blobs!CreateRow, Blobs!Load, Blobs!Lock, Blobs!Abort, Blobs!OpenTmp,
           Blobs!AppendBody, Blobs!BodyBreaks, Blobs!Hash, Blobs!StatBlob, Blobs!Rename,
           Blobs!RenameFails, Blobs!Grant
    <3> QED
        BY <3>1, <3>2, <3>3
  <2> QED
      BY <1>0, <2>1, <2>2 DEF Blobs!TypeOK
<1>3. bFaults' \in 0 .. BlobFaults
  <2>1. Blobs!Fault \/ UNCHANGED bFaults
      BY DEF Blobs!Next, Blobs!Package, Blobs!Request, Blobs!UploadStart, Blobs!Prune,
         Blobs!StoreBlob, Blobs!FromFile, Blobs!WriteOpen, Blobs!Write, Blobs!WriteFails,
         Blobs!Move, Blobs!CreateRow, Blobs!Load, Blobs!Lock, Blobs!Abort, Blobs!OpenTmp,
         Blobs!AppendBody, Blobs!BodyBreaks, Blobs!Hash, Blobs!StatBlob, Blobs!Rename,
         Blobs!RenameFails, Blobs!Grant, Blobs!Crash
  <2> QED
      BY <1>0, <2>1, BlobsAssumed DEF Blobs!Fault, Blobs!TypeOK, Blobs!BlobAssumption
<1> QED
    BY <1>1, <1>2, <1>3, BlobTypeParts, ReqTypeStep, PkgTypeStep, SessionTypeStep, FileTypeStep
    DEF Blobs!TypeOK, ReqType, PkgType, SessionType, PathType, ContentType

LEMMA BlobSteps ==
    ASSUME [BackgroundNext]_vars
    PROVE  Blobs!Next \/ UNCHANGED blobVars
    BY DEF BackgroundNext, vars, Others

LEMMA BlobInvariance == BackgroundSpec => []BlobInv
<1>1. BackgroundInit => BlobInv
  <2> SUFFICES ASSUME Blobs!Init PROVE BlobInv
      BY DEF BackgroundInit
  <2>1. Blobs!TypeOK
    <3>1. << >> \in Seq(BlobChunks)
        OBVIOUS
    <3>2. ReqType
        BY DEF Blobs!Init, Blobs!Quiet, ReqType
    <3>3. PkgType
        BY DEF Blobs!Init, Blobs!NoCall, PkgType
    <3>4. SessionType /\ PathType /\ ContentType
        BY <3>1 DEF Blobs!Init, SessionType, PathType, ContentType
    <3>5. bFaults \in 0 .. BlobFaults
        BY BlobsAssumed DEF Blobs!Init, Blobs!BlobAssumption
    <3>6. known \subseteq Contents /\ cut \subseteq Contents
        BY DEF Blobs!Init
    <3> QED
        BY <3>2, <3>3, <3>4, <3>5, <3>6, BlobTypeParts
  <2>2. OneRequest /\ OneName /\ OneDigest /\ WholeFiles
      BY BlobsAssumed
      DEF Blobs!Init, Blobs!Quiet, Blobs!NoCall, Blobs!BlobAssumption,
          OneRequest, OneName, OneDigest, WholeFiles, Inside, Writer
  <2> QED
      BY <2>1, <2>2, BlobsAssumed
      DEF Blobs!Init, Blobs!Quiet, Blobs!NoCall, BlobInv, OwnPackage, Writer, Referred,
          Blobs!BlobAssumption
<1>2. BlobInv /\ [BackgroundNext]_vars => BlobInv'
  <2> SUFFICES ASSUME BlobInv, [BackgroundNext]_vars PROVE BlobInv'
      OBVIOUS
  <2>1. CASE UNCHANGED blobVars
      BY <2>1 DEF blobVars, BlobInv, Blobs!TypeOK, OneRequest, OwnPackage, OneName, OneDigest,
                  WholeFiles, Referred, Inside, Writer
  <2>2. CASE Blobs!Next
      BY <2>2, BlobTypeStep, OneRequestStep, OwnPackageStep, OneNameStep, WholeFilesStep,
         ReferredStep DEF BlobInv
  <2> QED
      BY <2>1, <2>2, BlobSteps
<1> QED
    BY <1>1, <1>2, PTL DEF BackgroundSpec

\* What a row or an upload's grant refers to is there, and whole: a session's file is renamed
\* under the mutex that keeps further chunks from it, a digest's name is never taken
\* away, and only storeBlob writes to a file that has one (SaveRegistryBlobFromFile,
\* store/registry.go:80-115; storeBlob, store/packages.go:128-146).
THEOREM BlobsAreWhole == BackgroundSpec => []BlobWhole
<1>1. BlobInv => BlobWhole
    BY DEF BlobInv, Referred, WholeFiles, Writer, BlobWhole, Blobs!BlobWhole, Blobs!TypeOK
<1> QED
    BY BlobInvariance, <1>1, PTL

----------------------------------------------------------------------------
(* The schedule: its inductive invariant.                                  *)

\* The passes that claimed a tick, also those that have not triggered it yet.
Claimed == fired \cup {Schedule!Fire(i, TRUE) : i \in {j \in Instances : pass[j].pc = "trigger"}}

\* A claim is numbered, stands for a tick that was due, and moved last_fired.
ClaimsMade ==
    /\ last = Schedule!NoRow => Claimed = {}
    /\ \A f \in Claimed :
         /\ f.seen < f.n /\ f.n <= claims
         /\ f.tick <= f.now /\ f.now <= last

\* A pass about to claim found a tick due after the last_fired it read, which all
\* claims made by then had moved.
PassesRead ==
    \A i \in Instances : pass[i].pc = "claim" =>
        /\ pass[i].seen <= claims
        /\ last # Schedule!NoRow /\ pass[i].base <= last
        /\ Schedule!NextTick(pass[i].base) <= pass[i].now
        /\ \A f \in Claimed : f.n <= pass[i].seen => f.now <= pass[i].base

\* A pass that read the schedule after a claim stands for later ticks.
ClaimsInOrder == \A f, g \in Claimed : f.n <= g.seen => f.tick < g.tick

TicksClaimed ==
    last # Schedule!NoRow =>
        /\ from <= last
        /\ \A t \in from + 1 .. last :
             t % Period = 0 => \E f \in Claimed : f.tick <= t /\ t <= f.now

ScheduleInv == Schedule!TypeOK /\ ClaimsMade /\ PassesRead /\ ClaimsInOrder /\ TicksClaimed

\* The next tick is the first multiple of the period after the time given.
LEMMA NextTickIsFirst ==
    ASSUME NEW b \in Nat
    PROVE  /\ Schedule!NextTick(b) \in Nat /\ b < Schedule!NextTick(b)
           /\ \A t \in Nat : t % Period = 0 /\ b < t => Schedule!NextTick(b) <= t
<1> DEFINE q == b \div Period
<1>1. Period \in Nat /\ Period > 0
    BY BackgroundAssumption DEF Schedule!ScheduleAssumption
<1>2. q \in Nat /\ b = Period * q + (b % Period) /\ b % Period \in Nat /\ b % Period < Period
    BY <1>1
<1>3. Schedule!NextTick(b) = Period * q + Period
    BY <1>1, <1>2 DEF Schedule!NextTick
<1>4. ASSUME NEW t \in Nat, t % Period = 0, b < t PROVE Schedule!NextTick(b) <= t
  <2> DEFINE k == t \div Period
  <2>1. k \in Nat /\ t = Period * k
      BY <1>1, <1>4
  <2>2. Period * q < Period * k
      BY <1>1, <1>2, <1>4, <2>1
  <2>3. q + 1 <= k
      BY <1>1, <1>2, <2>1, <2>2
  <2>4. Period * (q + 1) <= Period * k
      BY <1>1, <1>2, <2>1, <2>3
  <2> QED
      BY <1>1, <1>2, <1>3, <2>1, <2>4
<1>5. Period * q \in Nat
    BY <1>1, <1>2
<1> QED
    BY <1>1, <1>2, <1>3, <1>4, <1>5

LEMMA ScheduleInit == BackgroundInit => ScheduleInv
<1> SUFFICES ASSUME Schedule!Init PROVE ScheduleInv
    BY DEF BackgroundInit
<1> USE BackgroundAssumption
    DEF Schedule!Init, Schedule!NoRow, Schedule!Idle, Schedule!ScheduleAssumption
<1>1. Schedule!TypeOK
    BY DEF Schedule!TypeOK
<1>2. Claimed = {}
    BY DEF Claimed
<1>3. ClaimsMade /\ PassesRead /\ ClaimsInOrder /\ TicksClaimed
    BY <1>2 DEF ClaimsMade, PassesRead, ClaimsInOrder, TicksClaimed
<1> QED
    BY <1>1, <1>3 DEF ScheduleInv

LEMMA ScheduleSteps == [BackgroundNext]_vars => [Schedule!Next]_scheduleVars
    BY DEF BackgroundNext, Others, vars

\* What a pass claimed, as a record.
LEMMA FireType ==
    ASSUME Schedule!TypeOK, NEW i \in Instances, NEW ok \in BOOLEAN
    PROVE  /\ Schedule!Fire(i, ok) \in [tick : Nat, now : 0 .. MaxTime, seen : Nat, n : Nat,
                                       ok : BOOLEAN]
           /\ Schedule!Fire(i, ok).tick = Schedule!NextTick(pass[i].base)
           /\ Schedule!Fire(i, ok).now = pass[i].now
           /\ Schedule!Fire(i, ok).seen = pass[i].seen
           /\ Schedule!Fire(i, ok).n = pass[i].n
<1>1. /\ pass[i].base \in Nat /\ pass[i].now \in 0 .. MaxTime
      /\ pass[i].seen \in Nat /\ pass[i].n \in Nat
    BY BackgroundAssumption DEF Schedule!TypeOK, Schedule!ScheduleAssumption
<1>2. Schedule!NextTick(pass[i].base) \in Nat
    BY <1>1, NextTickIsFirst
<1> QED
    BY <1>1, <1>2 DEF Schedule!Fire

LEMMA ClaimedType ==
    ASSUME Schedule!TypeOK
    PROVE  Claimed \subseteq [tick : Nat, now : 0 .. MaxTime, seen : Nat, n : Nat, ok : BOOLEAN]
    BY FireType DEF Claimed, Schedule!TypeOK

PassRecords == [pc : {"idle", "read", "register", "claim", "trigger"},
                now : 0 .. MaxTime, base : 0 .. MaxTime, seen : Nat, n : Nat]

\* The type invariant, with the passes apart.
LEMMA ScheduleTypes ==
    Schedule!TypeOK <=>
        /\ pass \in [Instances -> PassRecords]
        /\ clock \in 0 .. MaxTime
        /\ last \in 0 .. Schedule!NoRow /\ from \in 0 .. Schedule!NoRow
        /\ claims \in Nat /\ sCrashes \in Nat
        /\ fired \subseteq [tick : Nat, now : 0 .. MaxTime, seen : Nat, n : Nat, ok : BOOLEAN]
    BY DEF Schedule!TypeOK, PassRecords

LEMMA ScheduleTypeStep ==
    ASSUME Schedule!TypeOK, Schedule!Next
    PROVE  Schedule!TypeOK'
<1> DEFINE Shape == pass \in [Instances -> PassRecords]
           Rest == /\ clock \in 0 .. MaxTime
                   /\ last \in 0 .. Schedule!NoRow /\ from \in 0 .. Schedule!NoRow
                   /\ claims \in Nat /\ sCrashes \in Nat
                   /\ fired \subseteq [tick : Nat, now : 0 .. MaxTime, seen : Nat, n : Nat,
                                       ok : BOOLEAN]
<1>0. SUFFICES Shape' /\ Rest'
    BY ScheduleTypes DEF Schedule!TypeOK, PassRecords
<1>1. Shape /\ Rest /\ MaxTime \in Nat /\ Schedule!NoRow = MaxTime + 1
    BY ScheduleTypes, BackgroundAssumption DEF Schedule!ScheduleAssumption, Schedule!NoRow
<1>2. Schedule!Idle \in PassRecords
    BY <1>1 DEF Schedule!Idle, PassRecords
<1>3. CASE Schedule!Tick
    BY <1>1, <1>3 DEF Schedule!Tick
<1>4. ASSUME NEW i \in Instances, Schedule!Scan(i) PROVE Shape' /\ Rest'
  <2>1. [Schedule!Idle EXCEPT !.pc = "read", !.now = clock] \in PassRecords
      BY <1>1, <1>2 DEF PassRecords
  <2> QED
      BY <1>1, <1>4, <2>1 DEF Schedule!Scan
<1>5. ASSUME NEW i \in Instances, Schedule!Read(i) PROVE Shape' /\ Rest'
  <2>1. PICK p : p = pass[i] /\ p \in PassRecords
      BY <1>1
  <2>2. [p EXCEPT !.pc = "register"] \in PassRecords
      BY <2>1 DEF PassRecords
  <2>3. last # Schedule!NoRow =>
          [p EXCEPT !.pc = "claim", !.base = last, !.seen = claims] \in PassRecords
    <3>1. ASSUME NEW l \in 0 .. MaxTime, NEW c \in Nat
          PROVE  [p EXCEPT !.pc = "claim", !.base = l, !.seen = c] \in PassRecords
        BY <2>1 DEF PassRecords
    <3>2. last # Schedule!NoRow => last \in 0 .. MaxTime
        BY <1>1
    <3> QED
        BY <1>1, <3>1, <3>2
  <2>4. Shape'
      BY <1>1, <1>2, <1>5, <2>1, <2>2, <2>3 DEF Schedule!Read
  <2> QED
      BY <1>1, <1>5, <2>4 DEF Schedule!Read
<1>6. ASSUME NEW i \in Instances, Schedule!Register(i) PROVE Shape' /\ Rest'
  <2>1. pass[i].now \in 0 .. MaxTime
      BY <1>1 DEF PassRecords
  <2> QED
      BY <1>1, <1>2, <1>6, <2>1 DEF Schedule!Register, Schedule!ClaimSchedule
<1>7. ASSUME NEW i \in Instances, Schedule!Claim(i) PROVE Shape' /\ Rest'
  <2>1. PICK p : p = pass[i] /\ p \in PassRecords
      BY <1>1
  <2>2. p.now \in 0 .. MaxTime /\ [p EXCEPT !.pc = "trigger", !.n = claims + 1] \in PassRecords
    <3>1. PICK c \in Nat : c = claims + 1
        BY <1>1
    <3>2. p.now \in 0 .. MaxTime /\ [p EXCEPT !.pc = "trigger", !.n = c] \in PassRecords
        BY <2>1 DEF PassRecords
    <3> QED
        BY <3>1, <3>2
  <2>3. Shape'
      BY <1>1, <1>2, <1>7, <2>1, <2>2 DEF Schedule!Claim
  <2> QED
      BY <1>1, <1>7, <2>1, <2>2, <2>3 DEF Schedule!Claim, Schedule!ClaimSchedule
<1>8. ASSUME NEW i \in Instances, Schedule!Trigger(i) \/ Schedule!Crash(i) PROVE Shape' /\ Rest'
  <2>1. fired' \subseteq fired \cup {Schedule!Fire(i, TRUE), Schedule!Fire(i, FALSE)}
      BY <1>8 DEF Schedule!Trigger, Schedule!Crash
  <2>2. sCrashes' \in {sCrashes, sCrashes + 1} /\ sCrashes \in Nat
      BY <1>1, <1>8 DEF Schedule!Trigger, Schedule!Crash
  <2>3. Shape' /\ UNCHANGED <<clock, last, from, claims>>
      BY <1>1, <1>2, <1>8 DEF Schedule!Trigger, Schedule!Crash
  <2>4. fired' \subseteq [tick : Nat, now : 0 .. MaxTime, seen : Nat, n : Nat, ok : BOOLEAN]
      BY <1>1, <2>1, FireType
  <2> QED
      BY <1>1, <2>2, <2>3, <2>4
<1> QED
    BY <1>3, <1>4, <1>5, <1>6, <1>7, <1>8 DEF Schedule!Next, Schedule!Pass

\* The claims of a pass that goes from idle to claim.
LEMMA ClaimedFrame ==
    ASSUME NEW i \in Instances, pass[i].pc # "trigger", Schedule!TypeOK,
           \E p \in PassRecords : p.pc # "trigger" /\ pass' = [pass EXCEPT ![i] = p],
           UNCHANGED fired
    PROVE  Claimed' = Claimed
<1>1. PICK p \in PassRecords : p.pc # "trigger" /\ pass' = [pass EXCEPT ![i] = p]
    OBVIOUS
<1>2. \A j \in Instances : j # i => pass'[j] = pass[j]
    BY <1>1, ScheduleTypes
<1>3. pass'[i].pc # "trigger"
    BY <1>1, ScheduleTypes
<1>4. {j \in Instances : pass[j].pc = "trigger"}' = {j \in Instances : pass[j].pc = "trigger"}
    BY <1>2, <1>3
<1>5. \A j \in {k \in Instances : pass[k].pc = "trigger"} :
        Schedule!Fire(j, TRUE)' = Schedule!Fire(j, TRUE)
    BY <1>2 DEF Schedule!Fire
<1>6. ASSUME NEW x PROVE x \in Claimed' <=> x \in Claimed
    BY <1>4, <1>5 DEF Claimed
<1> QED
    BY <1>6

ScheduleSafe == ClaimsMade /\ PassesRead /\ ClaimsInOrder /\ TicksClaimed

\* The pass that a step replaces.
LEMMA PassStep ==
    ASSUME Schedule!TypeOK, NEW i \in Instances
    PROVE  /\ Schedule!Scan(i) => \E p \in PassRecords :
                p.pc = "read" /\ pass' = [pass EXCEPT ![i] = p]
           /\ Schedule!Read(i) => \E p \in PassRecords :
                /\ pass' = [pass EXCEPT ![i] = p]
                /\ \/ p.pc \in {"idle", "register"}
                   \/ /\ p.pc = "claim" /\ p.base = last /\ p.seen = claims
                      /\ last # Schedule!NoRow /\ Schedule!NextTick(p.base) <= p.now
           /\ Schedule!Register(i) \/ Schedule!Trigger(i) \/ Schedule!Crash(i) =>
                pass' = [pass EXCEPT ![i] = Schedule!Idle]
           /\ Schedule!Idle \in PassRecords /\ Schedule!Idle.pc = "idle"
<1>1. /\ pass \in [Instances -> PassRecords] /\ clock \in 0 .. MaxTime
      /\ last \in 0 .. Schedule!NoRow /\ claims \in Nat
      /\ MaxTime \in Nat /\ Schedule!NoRow = MaxTime + 1
    BY ScheduleTypes, BackgroundAssumption DEF Schedule!ScheduleAssumption, Schedule!NoRow
<1>2. Schedule!Idle \in PassRecords /\ Schedule!Idle.pc = "idle"
    BY <1>1 DEF Schedule!Idle, PassRecords
<1>3. ASSUME Schedule!Scan(i)
      PROVE  \E p \in PassRecords : p.pc = "read" /\ pass' = [pass EXCEPT ![i] = p]
  <2>1. PICK p : p = [Schedule!Idle EXCEPT !.pc = "read", !.now = clock]
      OBVIOUS
  <2>2. p \in PassRecords /\ p.pc = "read"
      BY <1>1, <1>2, <2>1 DEF PassRecords
  <2> QED
      BY <1>3, <2>1, <2>2 DEF Schedule!Scan
<1>4. ASSUME Schedule!Read(i)
      PROVE  \E p \in PassRecords :
                /\ pass' = [pass EXCEPT ![i] = p]
                /\ \/ p.pc \in {"idle", "register"}
                   \/ /\ p.pc = "claim" /\ p.base = last /\ p.seen = claims
                      /\ last # Schedule!NoRow /\ Schedule!NextTick(p.base) <= p.now
  <2>1. PICK r : r = pass[i] /\ r \in PassRecords
      BY <1>1
  <2>2. CASE last = Schedule!NoRow
    <3>1. PICK p : p = [r EXCEPT !.pc = "register"]
        OBVIOUS
    <3>2. p \in PassRecords /\ p.pc = "register"
        BY <2>1, <3>1 DEF PassRecords
    <3> QED
        BY <1>4, <2>1, <2>2, <3>1, <3>2 DEF Schedule!Read
  <2>3. CASE last # Schedule!NoRow /\ Schedule!NextTick(last) > r.now
      BY <1>2, <1>4, <2>1, <2>3 DEF Schedule!Read
  <2>4. CASE last # Schedule!NoRow /\ ~(Schedule!NextTick(last) > r.now)
    <3>1. PICK p : p = [r EXCEPT !.pc = "claim", !.base = last, !.seen = claims]
        OBVIOUS
    <3>2. last \in 0 .. MaxTime
        BY <1>1, <2>4
    <3>3. /\ p \in PassRecords /\ p.pc = "claim" /\ p.base = last /\ p.seen = claims
          /\ p.now = r.now
        BY <1>1, <2>1, <3>1, <3>2 DEF PassRecords
    <3>4. Schedule!NextTick(last) \in Nat /\ r.now \in Nat
        BY <1>1, <2>1, <3>2, NextTickIsFirst DEF PassRecords
    <3>5. Schedule!NextTick(p.base) <= p.now
        BY <2>4, <3>3, <3>4
    <3>6. pass' = [pass EXCEPT ![i] = p]
        BY <1>4, <2>1, <2>4, <3>1 DEF Schedule!Read
    <3> QED
        BY <2>4, <3>3, <3>5, <3>6
  <2> QED
      BY <2>2, <2>3, <2>4
<1>5. Schedule!Register(i) \/ Schedule!Trigger(i) \/ Schedule!Crash(i) =>
        pass' = [pass EXCEPT ![i] = Schedule!Idle]
    BY DEF Schedule!Register, Schedule!Trigger, Schedule!Crash
<1> QED
    BY <1>2, <1>3, <1>4, <1>5

\* Steps that claim nothing.
LEMMA NothingClaimed ==
    ASSUME ScheduleInv, Claimed' = Claimed, UNCHANGED <<last, claims, from>>,
           \A i \in Instances : pass'[i].pc = "claim" =>
              \/ pass'[i] = pass[i]
              \/ /\ pass'[i].base = last /\ pass'[i].seen = claims /\ last # Schedule!NoRow
                 /\ Schedule!NextTick(pass'[i].base) <= pass'[i].now
    PROVE  ScheduleSafe'
<1>1. ClaimsMade' /\ ClaimsInOrder' /\ TicksClaimed'
    BY DEF ScheduleInv, ClaimsMade, ClaimsInOrder, TicksClaimed, Schedule!NoRow
<1>2. PassesRead'
  <2>1. SUFFICES ASSUME NEW i \in Instances, pass'[i].pc = "claim"
                 PROVE  /\ pass'[i].seen <= claims
                        /\ last # Schedule!NoRow /\ pass'[i].base <= last
                        /\ Schedule!NextTick(pass'[i].base) <= pass'[i].now
                        /\ \A f \in Claimed : f.n <= pass'[i].seen => f.now <= pass'[i].base
      BY DEF PassesRead, Schedule!NoRow, Schedule!NextTick
  <2>2. CASE pass'[i] = pass[i]
      BY <2>1, <2>2 DEF ScheduleInv, PassesRead
  <2>3. CASE /\ pass'[i].base = last /\ pass'[i].seen = claims /\ last # Schedule!NoRow
             /\ Schedule!NextTick(pass'[i].base) <= pass'[i].now
    <3>1. claims \in Nat /\ last \in Nat
        BY ScheduleTypes, BackgroundAssumption
        DEF ScheduleInv, Schedule!NoRow, Schedule!ScheduleAssumption
    <3> QED
        BY <2>3, <3>1 DEF ScheduleInv, ClaimsMade
  <2> QED
      BY <2>1, <2>2, <2>3
<1> QED
    BY <1>1, <1>2 DEF ScheduleSafe

\* A claim that succeeds.
LEMMA ClaimSafe ==
    ASSUME ScheduleInv, NEW i \in Instances, Schedule!Claim(i)
    PROVE  ScheduleSafe'
<1>1. PICK r : r = pass[i] /\ r \in PassRecords /\ r.pc = "claim"
    BY ScheduleTypes DEF ScheduleInv, Schedule!Claim
<1>2. /\ pass \in [Instances -> PassRecords] /\ claims \in Nat /\ MaxTime \in Nat
      /\ last \in Nat /\ from \in Nat /\ Schedule!NoRow = MaxTime + 1
      /\ last # Schedule!NoRow /\ UNCHANGED <<fired, from>>
    BY <1>1, ScheduleTypes, BackgroundAssumption
    DEF ScheduleInv, PassesRead, Schedule!NoRow, Schedule!ScheduleAssumption, Schedule!Claim
<1>3. CASE ~Schedule!Claimable(r.now)
  <2>1. pass' = [pass EXCEPT ![i] = Schedule!Idle] /\ UNCHANGED <<last, claims>>
      BY <1>1, <1>3 DEF Schedule!Claim, Schedule!ClaimSchedule
  <2>2. Claimed' = Claimed
      BY <1>1, <1>2, <2>1, ClaimedFrame, PassStep DEF ScheduleInv
  <2>3. \A j \in Instances : pass'[j].pc = "claim" => pass'[j] = pass[j]
      BY <1>2, <2>1, PassStep DEF ScheduleInv
  <2> QED
      BY <1>2, <2>1, <2>2, <2>3, NothingClaimed
<1>4. CASE Schedule!Claimable(r.now)
  <2>0. PICK g : g = Schedule!Fire(i, TRUE)'
      OBVIOUS
  <2>1. PICK p : p = [r EXCEPT !.pc = "trigger", !.n = claims + 1]
      OBVIOUS
  <2>2. /\ p \in PassRecords /\ p.pc = "trigger" /\ p.now = r.now /\ p.base = r.base
        /\ p.seen = r.seen /\ p.n = claims + 1
    <3>1. PICK c \in Nat : c = claims + 1
        BY <1>2
    <3>2. p = [r EXCEPT !.pc = "trigger", !.n = c]
        BY <2>1, <3>1
    <3>3. /\ p \in PassRecords /\ p.pc = "trigger" /\ p.now = r.now /\ p.base = r.base
          /\ p.seen = r.seen /\ p.n = c
        BY <1>1, <3>2 DEF PassRecords
    <3> QED
        BY <3>1, <3>3
  <2>3. pass' = [pass EXCEPT ![i] = p] /\ last' = r.now /\ claims' = claims + 1 /\ last < r.now
      BY <1>1, <1>2, <1>4, <2>1 DEF Schedule!Claim, Schedule!ClaimSchedule, Schedule!Claimable
  <2>4. pass'[i] = p /\ \A j \in Instances : j # i => pass'[j] = pass[j]
      BY <1>2, <2>2, <2>3
  <2>5. Schedule!TypeOK'
      BY ScheduleTypeStep DEF ScheduleInv, Schedule!Next, Schedule!Pass
  <2>6. /\ g.tick = Schedule!NextTick(r.base) /\ g.now = r.now /\ g.seen = r.seen
        /\ g.n = claims + 1
      BY <2>0, <2>2, <2>4 DEF Schedule!Fire, Schedule!NextTick
  <2>7. ASSUME NEW f PROVE f \in Claimed' <=> f \in Claimed \/ f = g
    <3>1. \A j \in {k \in Instances : pass[k].pc = "trigger"} :
            Schedule!Fire(j, TRUE)' = Schedule!Fire(j, TRUE)
        BY <1>1, <2>4 DEF Schedule!Fire
    <3>2. {k \in Instances : pass[k].pc = "trigger"}'
            = {k \in Instances : pass[k].pc = "trigger"} \cup {i}
        BY <2>2, <2>4
    <3> QED
        BY <1>2, <2>0, <3>1, <3>2 DEF Claimed
  <2>8. /\ r.seen \in Nat /\ r.seen <= claims
        /\ r.base \in Nat /\ r.base <= last
        /\ Schedule!NextTick(r.base) <= r.now /\ r.now \in 0 .. MaxTime
        /\ \A f \in Claimed : f.n <= r.seen => f.now <= r.base
      BY <1>1, <1>2 DEF ScheduleInv, PassesRead, PassRecords
  <2>9. /\ Schedule!NextTick(r.base) \in Nat /\ r.base < Schedule!NextTick(r.base)
        /\ \A t \in Nat : t % Period = 0 /\ r.base < t => Schedule!NextTick(r.base) <= t
      BY <2>8, NextTickIsFirst
  <2>10. \A f \in Claimed : /\ f.tick \in Nat /\ f.now \in Nat /\ f.seen \in Nat /\ f.n \in Nat
                            /\ f.seen < f.n /\ f.n <= claims /\ f.tick <= f.now /\ f.now <= last
      BY <1>2, ClaimedType DEF ScheduleInv, ClaimsMade
  <2>11. ClaimsMade'
      BY <1>2, <2>3, <2>6, <2>7, <2>8, <2>9, <2>10 DEF ClaimsMade, Schedule!NoRow
  <2>12. PassesRead'
    <3>1. SUFFICES ASSUME NEW j \in Instances, pass'[j].pc = "claim"
                   PROVE  /\ pass'[j].seen <= claims'
                          /\ last' # Schedule!NoRow /\ pass'[j].base <= last'
                          /\ Schedule!NextTick(pass'[j].base) <= pass'[j].now
                          /\ \A f \in Claimed' : f.n <= pass'[j].seen => f.now <= pass'[j].base
        BY DEF PassesRead, Schedule!NoRow, Schedule!NextTick
    <3>2. pass'[j] = pass[j] /\ pass[j] \in PassRecords
        BY <1>2, <2>2, <2>4, <3>1
    <3>3. /\ pass[j].seen \in Nat /\ pass[j].seen <= claims /\ pass[j].base \in Nat
          /\ pass[j].base <= last
          /\ Schedule!NextTick(pass[j].base) <= pass[j].now
          /\ \A f \in Claimed : f.n <= pass[j].seen => f.now <= pass[j].base
        BY <3>1, <3>2 DEF ScheduleInv, PassesRead, PassRecords
    <3> QED
        BY <1>2, <2>3, <2>6, <2>7, <2>8, <3>2, <3>3
  <2>13. ClaimsInOrder'
      BY <1>2, <2>6, <2>7, <2>8, <2>9, <2>10 DEF ClaimsInOrder, ScheduleInv
  <2>14. TicksClaimed'
    <3>1. /\ from <= last
          /\ \A t \in from + 1 .. last :
               t % Period = 0 => \E f \in Claimed : f.tick <= t /\ t <= f.now
        BY <1>2 DEF ScheduleInv, TicksClaimed
    <3>2. ASSUME NEW t \in from + 1 .. r.now, t % Period = 0
          PROVE  \E f \in Claimed' : f.tick <= t /\ t <= f.now
      <4>1. CASE t <= last
          BY <1>2, <2>7, <2>8, <3>1, <3>2, <4>1
      <4>2. CASE last < t
        <5>1. t \in Nat /\ r.base < t /\ t <= r.now
            BY <1>2, <2>8, <3>2, <4>2
        <5>2. g.tick <= t /\ t <= g.now
            BY <2>6, <2>9, <3>2, <5>1
        <5> QED
            BY <2>7, <5>2
      <4> QED
          BY <1>2, <2>8, <3>2, <4>1, <4>2
    <3> QED
        BY <1>2, <2>3, <2>8, <3>1, <3>2 DEF TicksClaimed, Schedule!NoRow
  <2> QED
      BY <2>11, <2>12, <2>13, <2>14 DEF ScheduleSafe
<1> QED
    BY <1>3, <1>4

\* The passes that end: what they claimed stays claimed, triggered or not.
LEMMA EndSafe ==
    ASSUME ScheduleInv, NEW i \in Instances, Schedule!Trigger(i) \/ Schedule!Crash(i)
    PROVE  ScheduleSafe'
<1> DEFINE Same(f, g) == f.tick = g.tick /\ f.now = g.now /\ f.seen = g.seen /\ f.n = g.n
<1>1. /\ pass \in [Instances -> PassRecords] /\ last \in Nat /\ from \in Nat
      /\ UNCHANGED <<last, claims, from>>
  <2>1. MaxTime \in Nat /\ Schedule!NoRow = MaxTime + 1
      BY BackgroundAssumption DEF Schedule!ScheduleAssumption, Schedule!NoRow
  <2>2. pass \in [Instances -> PassRecords] /\ last \in Nat /\ from \in Nat
      BY <2>1, ScheduleTypes DEF ScheduleInv
  <2> QED
      BY <2>2 DEF Schedule!Trigger, Schedule!Crash
<1>2. /\ pass'[i].pc = "idle" /\ \A j \in Instances : j # i => pass'[j] = pass[j]
    BY <1>1, PassStep DEF ScheduleInv
<1>3. \A j \in Instances : j # i => Schedule!Fire(j, TRUE)' = Schedule!Fire(j, TRUE)
    BY <1>2 DEF Schedule!Fire
<1>4. \A ok \in BOOLEAN : Same(Schedule!Fire(i, ok), Schedule!Fire(i, TRUE))
    BY DEF Schedule!Fire
<1>5. /\ \A f \in fired' : f \in fired \/ (pass[i].pc = "trigger"
                                            /\ \E ok \in BOOLEAN : f = Schedule!Fire(i, ok))
      /\ fired \subseteq fired'
      /\ pass[i].pc = "trigger" => \E ok \in BOOLEAN : Schedule!Fire(i, ok) \in fired'
    BY DEF Schedule!Trigger, Schedule!Crash
<1>6. \A f \in Claimed' : \E g \in Claimed : Same(f, g)
  <2>1. SUFFICES ASSUME NEW f \in Claimed' PROVE \E g \in Claimed : Same(f, g)
      OBVIOUS
  <2>2. CASE f \in fired'
      BY <1>4, <1>5, <2>2 DEF Claimed
  <2>3. ASSUME NEW j \in Instances, pass'[j].pc = "trigger", f = Schedule!Fire(j, TRUE)'
        PROVE  \E g \in Claimed : Same(f, g)
    <3>1. j # i /\ pass[j].pc = "trigger" /\ f = Schedule!Fire(j, TRUE)
        BY <1>2, <1>3, <2>3
    <3> QED
        BY <3>1 DEF Claimed
  <2> QED
      BY <2>1, <2>2, <2>3 DEF Claimed
<1>7. \A g \in Claimed : \E f \in Claimed' : Same(f, g)
  <2>1. SUFFICES ASSUME NEW g \in Claimed PROVE \E f \in Claimed' : Same(f, g)
      OBVIOUS
  <2>2. CASE g \in fired
      BY <1>5, <2>2 DEF Claimed
  <2>3. ASSUME NEW j \in Instances, pass[j].pc = "trigger", g = Schedule!Fire(j, TRUE)
        PROVE  \E f \in Claimed' : Same(f, g)
    <3>1. CASE j = i
        BY <1>4, <1>5, <2>3, <3>1 DEF Claimed
    <3>2. CASE j # i
      <4>1. pass'[j].pc = "trigger" /\ g = Schedule!Fire(j, TRUE)'
          BY <1>2, <1>3, <2>3, <3>2
      <4> QED
          BY <4>1 DEF Claimed
    <3> QED
        BY <3>1, <3>2
  <2> QED
      BY <2>1, <2>2, <2>3 DEF Claimed
<1> HIDE DEF Same
<1>8. ClaimsMade'
  <2>1. last = Schedule!NoRow => Claimed' = {}
      BY <1>6 DEF ScheduleInv, ClaimsMade
  <2>2. ASSUME NEW f \in Claimed'
        PROVE  f.seen < f.n /\ f.n <= claims /\ f.tick <= f.now /\ f.now <= last
      BY <1>6, <2>2 DEF ScheduleInv, ClaimsMade, Same
  <2> QED
      BY <1>1, <2>1, <2>2 DEF ClaimsMade, Schedule!NoRow
<1>9. PassesRead'
  <2>1. SUFFICES ASSUME NEW j \in Instances, pass'[j].pc = "claim"
                 PROVE  /\ pass'[j].seen <= claims
                        /\ last # Schedule!NoRow /\ pass'[j].base <= last
                        /\ Schedule!NextTick(pass'[j].base) <= pass'[j].now
                        /\ \A f \in Claimed' : f.n <= pass'[j].seen => f.now <= pass'[j].base
      BY <1>1 DEF PassesRead, Schedule!NoRow, Schedule!NextTick
  <2>2. pass'[j] = pass[j]
      BY <1>2, <2>1
  <2>3. \A f \in Claimed' : f.n <= pass[j].seen => f.now <= pass[j].base
      BY <1>6, <2>1, <2>2 DEF ScheduleInv, PassesRead, Same
  <2> QED
      BY <2>1, <2>2, <2>3 DEF ScheduleInv, PassesRead
<1>10. ClaimsInOrder'
  <2>1. SUFFICES ASSUME NEW f \in Claimed', NEW h \in Claimed', f.n <= h.seen
                 PROVE  f.tick < h.tick
      BY DEF ClaimsInOrder
  <2>2. PICK a \in Claimed, b \in Claimed : Same(f, a) /\ Same(h, b)
      BY <1>6
  <2> QED
      BY <2>1, <2>2 DEF ScheduleInv, ClaimsInOrder, Same
<1>11. TicksClaimed'
  <2>1. SUFFICES ASSUME last # Schedule!NoRow, NEW t \in from + 1 .. last, t % Period = 0
                 PROVE  \E f \in Claimed' : f.tick <= t /\ t <= f.now
      BY <1>1 DEF TicksClaimed, ScheduleInv, Schedule!NoRow
  <2>2. PICK g \in Claimed : g.tick <= t /\ t <= g.now
      BY <2>1 DEF ScheduleInv, TicksClaimed
  <2> QED
      BY <1>7, <2>2 DEF Same
<1> QED
    BY <1>8, <1>9, <1>10, <1>11 DEF ScheduleSafe

LEMMA ScheduleInvStep ==
    ASSUME ScheduleInv, Schedule!Next
    PROVE  ScheduleInv'
<1>1. Schedule!TypeOK'
    BY ScheduleTypeStep DEF ScheduleInv
<1>2. pass \in [Instances -> PassRecords] /\ Schedule!TypeOK
    BY ScheduleTypes DEF ScheduleInv
<1>3. CASE Schedule!Tick
  <2>1. UNCHANGED <<last, pass, fired, claims, from>>
      BY <1>3 DEF Schedule!Tick
  <2>2. Claimed' = Claimed
      BY <2>1 DEF Claimed, Schedule!Fire, Schedule!NextTick
  <2>3. \A i \in Instances : pass'[i].pc = "claim" => pass'[i] = pass[i]
      BY <2>1
  <2>4. UNCHANGED <<last, claims, from>>
      BY <2>1
  <2> QED
      BY <1>1, <2>2, <2>3, <2>4, NothingClaimed DEF ScheduleInv, ScheduleSafe
<1>4. ASSUME NEW i \in Instances, Schedule!Scan(i) PROVE ScheduleSafe'
  <2>1. PICK p \in PassRecords : p.pc = "read" /\ pass' = [pass EXCEPT ![i] = p]
      BY <1>2, <1>4, PassStep
  <2>2. UNCHANGED <<last, claims, from, fired>> /\ pass[i].pc # "trigger"
      BY <1>4 DEF Schedule!Scan
  <2>3. Claimed' = Claimed
      BY <1>2, <2>1, <2>2, ClaimedFrame
  <2>4. \A j \in Instances : pass'[j].pc = "claim" => pass'[j] = pass[j]
      BY <1>2, <2>1
  <2> QED
      BY <2>2, <2>3, <2>4, NothingClaimed
<1>5. ASSUME NEW i \in Instances, Schedule!Read(i) PROVE ScheduleSafe'
  <2>1. PICK p \in PassRecords :
          /\ pass' = [pass EXCEPT ![i] = p]
          /\ \/ p.pc \in {"idle", "register"}
             \/ /\ p.pc = "claim" /\ p.base = last /\ p.seen = claims
                /\ last # Schedule!NoRow /\ Schedule!NextTick(p.base) <= p.now
      BY <1>2, <1>5, PassStep
  <2>2. UNCHANGED <<last, claims, from, fired>> /\ pass[i].pc # "trigger"
      BY <1>5 DEF Schedule!Read
  <2>3. Claimed' = Claimed
      BY <1>2, <2>1, <2>2, ClaimedFrame
  <2>4. pass'[i] = p /\ \A j \in Instances : j # i => pass'[j] = pass[j]
      BY <1>2, <2>1
  <2> QED
      BY <2>1, <2>2, <2>3, <2>4, NothingClaimed
<1>6. ASSUME NEW i \in Instances, Schedule!Register(i) PROVE ScheduleSafe'
  <2>1. /\ pass' = [pass EXCEPT ![i] = Schedule!Idle] /\ UNCHANGED fired
        /\ pass[i].pc # "trigger"
      BY <1>6 DEF Schedule!Register
  <2>2. Claimed' = Claimed
      BY <1>2, <2>1, ClaimedFrame, PassStep
  <2>3. \A j \in Instances : pass'[j].pc = "claim" => pass'[j] = pass[j]
      BY <1>2, <2>1, PassStep
  <2>4. CASE ~Schedule!Claimable(pass[i].now)
    <3>1. UNCHANGED <<last, claims, from>>
        BY <1>6, <2>4 DEF Schedule!Register, Schedule!ClaimSchedule
    <3> QED
        BY <2>2, <2>3, <3>1, NothingClaimed
  <2>5. CASE Schedule!Claimable(pass[i].now)
    <3>1. /\ last' = pass[i].now /\ from' = pass[i].now /\ claims' = claims + 1
          /\ last = Schedule!NoRow \/ last < last'
        BY <1>6, <2>5 DEF Schedule!Register, Schedule!ClaimSchedule, Schedule!Claimable
    <3>2. /\ last \in Nat /\ claims \in Nat /\ MaxTime \in Nat /\ Schedule!NoRow = MaxTime + 1
          /\ last' \in 0 .. MaxTime
        BY <1>2, <3>1, ScheduleTypes, BackgroundAssumption
        DEF PassRecords, Schedule!ScheduleAssumption, Schedule!NoRow
    <3>3. \A f \in Claimed : f.now \in Nat /\ f.n \in Nat
        BY <1>2, <3>2, ClaimedType
    <3>4. ClaimsMade'
        BY <2>2, <3>1, <3>2, <3>3 DEF ScheduleInv, ClaimsMade, Schedule!NoRow
    <3>5. PassesRead'
      <4>1. SUFFICES ASSUME NEW j \in Instances, pass'[j].pc = "claim"
                     PROVE  /\ pass'[j].seen <= claims'
                            /\ last' # Schedule!NoRow /\ pass'[j].base <= last'
                            /\ Schedule!NextTick(pass'[j].base) <= pass'[j].now
                            /\ \A f \in Claimed' : f.n <= pass'[j].seen => f.now <= pass'[j].base
          BY DEF PassesRead, Schedule!NoRow, Schedule!NextTick
      <4>2. pass'[j] = pass[j] /\ pass[j].seen \in Nat /\ pass[j].base \in Nat
          BY <1>2, <2>3, <3>2, <4>1 DEF PassRecords
      <4> QED
          BY <2>2, <3>1, <3>2, <4>1, <4>2 DEF ScheduleInv, PassesRead
    <3>6. ClaimsInOrder' /\ TicksClaimed'
        BY <2>2, <3>1, <3>2 DEF ScheduleInv, ClaimsInOrder, TicksClaimed
    <3> QED
        BY <3>4, <3>5, <3>6 DEF ScheduleSafe
  <2> QED
      BY <2>4, <2>5
<1> QED
    BY <1>1, <1>3, <1>4, <1>5, <1>6, ClaimSafe, EndSafe
    DEF ScheduleInv, ScheduleSafe, Schedule!Next, Schedule!Pass

LEMMA ScheduleInvariance == BackgroundSpec => []ScheduleInv
<1>1. ScheduleInv /\ [BackgroundNext]_vars => ScheduleInv'
  <2> SUFFICES ASSUME ScheduleInv, [Schedule!Next]_scheduleVars PROVE ScheduleInv'
      BY ScheduleSteps
  <2>1. CASE UNCHANGED scheduleVars
      BY <2>1 DEF scheduleVars, ScheduleInv, ClaimsMade, PassesRead, ClaimsInOrder, TicksClaimed,
                  Claimed, Schedule!TypeOK, Schedule!Fire, Schedule!NextTick, Schedule!NoRow
  <2> QED
      BY <2>1, ScheduleInvStep
<1> QED
    BY ScheduleInit, <1>1, PTL DEF BackgroundSpec

\* A cron tick is fired a second time only by a pass that looked at the schedule
\* before the first one claimed it (ClaimSchedule, store/pipeline.go:292-312).
THEOREM TicksFireOnce == BackgroundSpec => []TwiceOnlyOverlapping
<1>1. ScheduleInv => TwiceOnlyOverlapping
  <2> SUFFICES ASSUME ScheduleInv, NEW f \in fired, NEW g \in fired,
                      f.tick = g.tick, ~(g.seen < f.n)
               PROVE  FALSE
      BY DEF TwiceOnlyOverlapping, Schedule!TwiceOnlyOverlapping
  <2>1. f.n \in Nat /\ g.seen \in Nat /\ f.tick \in Nat /\ f \in Claimed /\ g \in Claimed
      BY ScheduleTypes DEF ScheduleInv, Claimed
  <2> QED
      BY <2>1 DEF ScheduleInv, ClaimsInOrder
<1> QED
    BY ScheduleInvariance, <1>1, PTL

\* No tick falls between two servers: each one up to last_fired since the schedule
\* was last registered has a pass that claimed it (schedule.go, RunScheduled).
THEOREM NoTickIsSkipped == BackgroundSpec => []NoTickSkipped
<1>1. ScheduleInv => NoTickSkipped
    BY DEF ScheduleInv, TicksClaimed, Claimed, NoTickSkipped, Schedule!NoTickSkipped
<1> QED
    BY ScheduleInvariance, <1>1, PTL

----------------------------------------------------------------------------
(* The connections to a reverse runner: their inductive invariant.         *)

\* Loops that took the key and have not deleted it yet.
Active == {l \in Reverse!Loops : lpc[l] \in {"dial", "up", "delete"}}

\* The key counts while a loop that runs renews it, or is about to delete it.
KeyHeld == key /\ \E l \in Active : Reverse!Runs(l)

\* Every stall leaves at most one loop more that took the key.
LoopsCounted == Cardinality(Active) <= stalls + (IF KeyHeld THEN 1 ELSE 0)

ReverseInv == Reverse!TypeOK /\ LoopsCounted

\* ReverseDial's own finite sets are those of the library.
LEMMA SameCardinality ==
    ASSUME NEW S
    PROVE  (Reverse!IsFiniteSet(S) <=> IsFiniteSet(S)) /\ Reverse!Cardinality(S) = Cardinality(S)
    BY DEF IsFiniteSet, Reverse!IsFiniteSet, Cardinality, Reverse!Cardinality

LEMMA ActiveFinite == IsFiniteSet(Reverse!Loops) /\ IsFiniteSet(Active)
<1>1. IsFiniteSet(Reverse!Urls)
    BY FS_Interval, BackgroundAssumption DEF Reverse!Urls, Reverse!ReverseAssumption
<1>2. IsFiniteSet(Dialers)
    BY BackgroundAssumption, SameCardinality DEF Reverse!ReverseAssumption
<1>3. IsFiniteSet(Reverse!Loops)
    BY <1>1, <1>2, FS_Product DEF Reverse!Loops
<1> QED
    BY <1>3, FS_Subset DEF Active

\* How a step of one loop changes the number of those that took the key.
LEMMA ActiveStep ==
    ASSUME NEW S, Active' = S
    PROVE  /\ IsFiniteSet(Active) /\ Cardinality(Active) \in Nat
           /\ S \subseteq Active => Cardinality(S) <= Cardinality(Active) /\ Cardinality(S) \in Nat
           /\ \A l \in Active : S \subseteq Active \ {l} =>
                 Cardinality(S) <= Cardinality(Active) - 1 /\ Cardinality(S) \in Nat
           /\ \A l : S \subseteq Active \cup {l} =>
                 Cardinality(S) <= Cardinality(Active) + 1 /\ Cardinality(S) \in Nat
<1>1. IsFiniteSet(Active) /\ Cardinality(Active) \in Nat
    BY ActiveFinite, FS_CardinalityType
<1>2. ASSUME NEW T, IsFiniteSet(T), S \subseteq T
      PROVE  Cardinality(S) <= Cardinality(T) /\ Cardinality(S) \in Nat
    BY <1>2, FS_Subset, FS_CardinalityType
<1>3. ASSUME NEW l \in Active
      PROVE  IsFiniteSet(Active \ {l}) /\ Cardinality(Active \ {l}) = Cardinality(Active) - 1
    BY <1>1, FS_RemoveElement
<1>4. ASSUME NEW l
      PROVE  /\ IsFiniteSet(Active \cup {l})
             /\ Cardinality(Active \cup {l}) \in {Cardinality(Active), Cardinality(Active) + 1}
    BY <1>1, FS_AddElement
<1>5. ASSUME NEW l \in Active, S \subseteq Active \ {l}
      PROVE  Cardinality(S) <= Cardinality(Active) - 1 /\ Cardinality(S) \in Nat
    BY <1>2, <1>3, <1>5
<1>6. ASSUME NEW l, S \subseteq Active \cup {l}
      PROVE  Cardinality(S) <= Cardinality(Active) + 1 /\ Cardinality(S) \in Nat
  <2>1. Cardinality(S) <= Cardinality(Active \cup {l}) /\ Cardinality(S) \in Nat
      BY <1>2, <1>4, <1>6
  <2>2. PICK a \in Nat, b \in Nat :
          /\ a = Cardinality(Active) /\ b = Cardinality(S)
          /\ Cardinality(Active \cup {l}) \in {a, a + 1} /\ b <= Cardinality(Active \cup {l})
      BY <1>1, <1>4, <2>1
  <2> QED
      BY <2>2
<1> QED
    BY <1>1, <1>2, <1>5, <1>6

LEMMA ReverseInit == BackgroundInit => ReverseInv
<1> SUFFICES ASSUME Reverse!Init PROVE ReverseInv
    BY DEF BackgroundInit
<1> USE BackgroundAssumption DEF Reverse!Init, Reverse!ReverseAssumption
<1>1. Reverse!TypeOK
  <2>1. lpc \in [Reverse!Loops -> {"none", "try", "dial", "up", "delete"}]
      OBVIOUS
  <2>2. current \in [Dialers -> 0 .. MaxUrl] /\ url \in Reverse!Urls
      BY DEF Reverse!Urls
  <2> QED
      BY <2>1, <2>2 DEF Reverse!TypeOK
<1>2. Active = {}
    BY DEF Active
<1>3. LoopsCounted
    BY <1>2, FS_EmptySet DEF LoopsCounted, KeyHeld
<1> QED
    BY <1>1, <1>3 DEF ReverseInv

LEMMA ReverseSteps == [BackgroundNext]_vars => [Reverse!Next]_reverseVars
    BY DEF BackgroundNext, Others, vars

LEMMA ReverseTypeStep ==
    ASSUME Reverse!TypeOK, Reverse!Next
    PROVE  Reverse!TypeOK'
<1> USE BackgroundAssumption
    DEF Reverse!TypeOK, Reverse!Urls, Reverse!Loops, Reverse!Goto, Reverse!ReverseAssumption
<1>1. CASE Reverse!SetUrl
    BY <1>1 DEF Reverse!SetUrl
<1>6. CASE Reverse!Expire
    BY <1>6 DEF Reverse!Expire
<1>2. ASSUME NEW i \in Dialers, Reverse!Reconcile(i) PROVE Reverse!TypeOK'
    BY <1>2 DEF Reverse!Reconcile
<1>3. ASSUME NEW i \in Dialers, Reverse!Stall(i) \/ Reverse!Wake(i) PROVE Reverse!TypeOK'
    BY <1>3 DEF Reverse!Stall, Reverse!Wake
<1>4. ASSUME NEW i \in Dialers, Reverse!Crash(i) PROVE Reverse!TypeOK'
    BY <1>4 DEF Reverse!Crash
<1>5. ASSUME NEW l \in Reverse!Loops, Reverse!Loop(l) \/ Reverse!Drop(l) PROVE Reverse!TypeOK'
    BY <1>5 DEF Reverse!Loop, Reverse!SetNX, Reverse!Dial, Reverse!Cancel, Reverse!Del, Reverse!Drop
<1> QED
    BY <1>1, <1>2, <1>3, <1>4, <1>5, <1>6 DEF Reverse!Next

LEMMA ReverseInvStep ==
    ASSUME ReverseInv, Reverse!Next
    PROVE  LoopsCounted'
<1> DEFINE A == Cardinality(Active)
           B == Cardinality(Active')
<1>1. /\ lpc \in [Reverse!Loops -> {"none", "try", "dial", "up", "delete"}]
      /\ stalls \in Nat /\ key \in BOOLEAN /\ A \in Nat
      /\ A <= stalls + (IF KeyHeld THEN 1 ELSE 0)
    BY ActiveStep DEF ReverseInv, LoopsCounted, Reverse!TypeOK
<1>2. /\ Active' \subseteq Active => B <= A /\ B \in Nat
      /\ \A l \in Active : Active' \subseteq Active \ {l} => B <= A - 1 /\ B \in Nat
      /\ \A l : Active' \subseteq Active \cup {l} => B <= A + 1 /\ B \in Nat
    BY ActiveStep
<1> HIDE DEF A, B
<1>3. SUFFICES B <= stalls' + (IF KeyHeld' THEN 1 ELSE 0)
    BY DEF LoopsCounted, B
<1>4. CASE Reverse!SetUrl
  <2>1. UNCHANGED <<lpc, key, stalled, stalls>> /\ Active' = Active
      BY <1>4 DEF Reverse!SetUrl, Active
  <2>2. KeyHeld' <=> KeyHeld
      BY <2>1 DEF KeyHeld, Reverse!Runs
  <2> QED
      BY <1>1, <1>2, <2>1, <2>2
<1>5. CASE Reverse!Expire
  <2>1. ~KeyHeld
      BY <1>5 DEF Reverse!Expire, KeyHeld, Active
  <2>2. Active' = Active /\ UNCHANGED stalls
      BY <1>5 DEF Reverse!Expire, Active
  <2> QED
      BY <1>1, <1>2, <2>1, <2>2
<1>6. ASSUME NEW i \in Dialers, Reverse!Reconcile(i)
      PROVE  B <= stalls' + (IF KeyHeld' THEN 1 ELSE 0)
  <2>1. PICK l : l = <<i, url>>
      OBVIOUS
  <2>2. /\ lpc' = [lpc EXCEPT ![l] = "try"] /\ UNCHANGED <<key, stalled, stalls>>
      BY <1>6, <2>1 DEF Reverse!Reconcile
  <2>3. Active' = Active \ {l}
      BY <1>1, <2>2 DEF Active
  <2>4. CASE l \in Active
      BY <1>1, <1>2, <2>2, <2>3, <2>4
  <2>5. CASE l \notin Active
    <3>1. Active' = Active
        BY <2>3, <2>5
    <3>2. KeyHeld' <=> KeyHeld
        BY <2>2, <3>1 DEF KeyHeld, Reverse!Runs
    <3> QED
        BY <1>1, <1>2, <2>2, <3>1, <3>2
  <2> QED
      BY <2>4, <2>5
<1>7. ASSUME NEW i \in Dialers, Reverse!Stall(i)
      PROVE  B <= stalls' + (IF KeyHeld' THEN 1 ELSE 0)
  <2>1. stalls' = stalls + 1 /\ Active' = Active
      BY <1>7 DEF Reverse!Stall, Active
  <2> QED
      BY <1>1, <1>2, <2>1
<1>8. ASSUME NEW i \in Dialers, Reverse!Wake(i)
      PROVE  B <= stalls' + (IF KeyHeld' THEN 1 ELSE 0)
  <2>1. UNCHANGED <<key, stalls>> /\ Active' = Active /\ stalled' \subseteq stalled
      BY <1>8 DEF Reverse!Wake, Active
  <2>2. KeyHeld => KeyHeld'
      BY <2>1 DEF KeyHeld, Reverse!Runs
  <2> QED
      BY <1>1, <1>2, <2>1, <2>2
<1>9. ASSUME NEW i \in Dialers, Reverse!Crash(i)
      PROVE  B <= stalls' + (IF KeyHeld' THEN 1 ELSE 0)
  <2>1. /\ UNCHANGED <<key, stalls>> /\ stalled' = stalled \ {i}
        /\ Active' = {l \in Active : l[1] # i}
      BY <1>1, <1>9 DEF Reverse!Crash, Active
  <2>2. CASE \E l \in Active : l[1] = i /\ Reverse!Runs(l)
      BY <1>1, <1>2, <2>1, <2>2
  <2>3. CASE ~\E l \in Active : l[1] = i /\ Reverse!Runs(l)
    <3>1. KeyHeld => KeyHeld'
        BY <2>1, <2>3 DEF KeyHeld, Reverse!Runs
    <3> QED
        BY <1>1, <1>2, <2>1, <3>1
  <2> QED
      BY <2>2, <2>3
<1>10. ASSUME NEW l \in Reverse!Loops, Reverse!SetNX(l)
       PROVE  B <= stalls' + (IF KeyHeld' THEN 1 ELSE 0)
  <2>1. ~KeyHeld /\ UNCHANGED stalls
      BY <1>10 DEF Reverse!SetNX, KeyHeld
  <2>2. Active' = Active \cup {l} /\ KeyHeld'
      BY <1>1, <1>10 DEF Reverse!SetNX, Reverse!Goto, Reverse!Runs, KeyHeld, Active
  <2> QED
      BY <1>1, <1>2, <2>1, <2>2
<1>11. ASSUME NEW l \in Reverse!Loops, Reverse!Dial(l) \/ Reverse!Drop(l) \/ Reverse!Cancel(l)
       PROVE  B <= stalls' + (IF KeyHeld' THEN 1 ELSE 0)
  <2>1. UNCHANGED <<key, stalled, stalls>> /\ Active' = Active
      BY <1>1, <1>11
      DEF Reverse!Dial, Reverse!Drop, Reverse!Cancel, Reverse!Goto, Reverse!Dialing, Active
  <2>2. KeyHeld' <=> KeyHeld
      BY <2>1 DEF KeyHeld, Reverse!Runs
  <2> QED
      BY <1>1, <1>2, <2>1, <2>2
<1>12. ASSUME NEW l \in Reverse!Loops, Reverse!Del(l)
       PROVE  B <= stalls' + (IF KeyHeld' THEN 1 ELSE 0)
  <2>1. l \in Active /\ Active' \subseteq Active \ {l} /\ UNCHANGED stalls
      BY <1>1, <1>12 DEF Reverse!Del, Reverse!Goto, Active
  <2> QED
      BY <1>1, <1>2, <2>1
<1> QED
    BY <1>4, <1>5, <1>6, <1>7, <1>8, <1>9, <1>10, <1>11, <1>12
    DEF Reverse!Next, Reverse!Loop

LEMMA ReverseInvariance == BackgroundSpec => []ReverseInv
<1>1. ReverseInv /\ [BackgroundNext]_vars => ReverseInv'
  <2> SUFFICES ASSUME ReverseInv, [Reverse!Next]_reverseVars PROVE ReverseInv'
      BY ReverseSteps
  <2>1. CASE UNCHANGED reverseVars
      BY <2>1 DEF reverseVars, ReverseInv, LoopsCounted, Active, KeyHeld, Reverse!TypeOK,
                  Reverse!Runs
  <2>2. CASE Reverse!Next
      BY <2>2, ReverseTypeStep, ReverseInvStep DEF ReverseInv
  <2> QED
      BY <2>1, <2>2
<1> QED
    BY ReverseInit, <1>1, PTL DEF BackgroundSpec

\* One server at a time dials the runner, and each stall that outlived the key adds
\* at most one more, however many keys the loops delete of each other
\* (reverseDialLoop, reverse.go:76-127).
THEOREM OneServerDials == BackgroundSpec => []OneDialer
<1>1. ReverseInv => OneDialer
  <2> SUFFICES ASSUME ReverseInv PROVE Cardinality(Reverse!Dialing) <= 1 + stalls
      BY SameCardinality DEF OneDialer, Reverse!OneDialer
  <2>1. IsFiniteSet(Active) /\ Reverse!Dialing \subseteq Active
      BY ActiveFinite DEF Active, Reverse!Dialing
  <2>2. /\ Cardinality(Reverse!Dialing) <= Cardinality(Active)
        /\ Cardinality(Reverse!Dialing) \in Nat /\ Cardinality(Active) \in Nat
      BY <2>1, FS_Subset, FS_CardinalityType
  <2> QED
      BY <2>2 DEF ReverseInv, LoopsCounted, Reverse!TypeOK
<1> QED
    BY ReverseInvariance, <1>1, PTL

=============================================================================
