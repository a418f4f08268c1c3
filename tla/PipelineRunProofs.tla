-------------------------- MODULE PipelineRunProofs --------------------------
(***************************************************************************)
(* Theorems about PipelineRun for any number of runs, servers, threads and *)
(* crashes, in both queue modes.                                           *)
(***************************************************************************)
EXTENDS PipelineRun, FiniteSetTheorems, TLAPS

USE PipelineRunAssumption DEF Threads

\* The shape of every variable is kept by every step: Init and each action.
LEMMA InitTypeOK == Init => TypeOK
  BY DEF Init, TypeOK, Status, CallerPc, Unregistered, CancelPc, Actions, Terminal, Open

LEMMA SpawnTypeOK ==
  ASSUME TypeOK, NEW i, NEW r \in Runs, Spawn(i, r)
  PROVE  /\ queued' \subseteq Runs /\ held' \subseteq Runs
         /\ wpc' \in [Workers -> Unregistered \cup Registered]
         /\ wrun' \in [Workers -> Runs \cup {NoRun}]
         /\ \A w \in Workers : wpc'[w] # "idle" => wrun'[w] \in Runs
         /\ wctx' \in [Workers -> {"live", "cancelled", "deadline"}]
         /\ wres' \in [Workers -> {"none"} \cup Terminal]
         /\ \A w \in Workers : wpc'[w] \in {"finish", "emit"} => wres'[w] \in Terminal
<1>1. PICK w \in Workers : /\ wpc'  = [wpc EXCEPT ![w] = "start"]
                           /\ wrun' = [wrun EXCEPT ![w] = r]
                           /\ UNCHANGED <<wctx, wres, queueVars>>
  BY DEF Spawn
<1>2. QED
  BY <1>1 DEF TypeOK, queueVars, Unregistered

LEMMA CallerTypeOK ==
  ASSUME TypeOK, NEW c \in Callers, CheckActive(c) \/ CallerStep(c)
  PROVE  TypeOK'
<1> USE DEF TypeOK, rowVars, queueVars, procVars, callerVars, workerVars, cancelVars, obsVars
<1>1. CASE CheckActive(c)
  BY <1>1 DEF CheckActive, CallerPc
<1>2. CASE Decline(c)
  BY <1>2 DEF Decline, CallerPc
<1>3. CASE EmitQueued(c)
  <2>1. trun[c] \in Runs
    BY <1>3 DEF EmitQueued
  <2>2. events' \in [Runs -> Seq(Actions)]
    BY <1>3, <2>1 DEF EmitQueued, Publish, Actions
  <2>3. \/ /\ tpc'  = [tpc EXCEPT ![c] = "idle"]
           /\ trun' = [trun EXCEPT ![c] = NoRun]
        \/ /\ tpc'  = [tpc EXCEPT ![c] = "dispatch"]
           /\ trun' = trun
    BY <1>3, Zenon DEF EmitQueued
  <2>4. tpc' \in [Callers -> CallerPc] /\ trun' \in [Callers -> Runs \cup {NoRun}]
    BY <2>1, <2>3 DEF CallerPc
  <2>5. \A d \in Callers : tpc'[d] \in {"created", "dispatch", "reject"} => trun'[d] \in Runs
    BY <2>1, <2>3
  <2>6. QED
    BY <1>3, <2>2, <2>4, <2>5 DEF EmitQueued
<1>4. CASE DispatchNow(c)
  <2>1. trun[c] \in Runs /\ tpc' \in [Callers -> CallerPc]
          /\ trun' \in [Callers -> Runs \cup {NoRun}]
    BY <1>4 DEF DispatchNow, CallerPc
  <2>2. \A d \in Callers : tpc'[d] \in {"created", "dispatch", "reject"} => trun'[d] \in Runs
    BY <1>4 DEF DispatchNow
  <2>3. CASE Redis
    BY <1>4, <2>1, <2>2, <2>3 DEF DispatchNow, Dispatch, Enqueue
  <2>4. CASE ~Redis
    BY <1>4, <2>1, <2>2, <2>4, SpawnTypeOK DEF DispatchNow, Dispatch
  <2>5. QED BY <2>3, <2>4
<1>5. CASE EnqueueError(c)
  BY <1>5 DEF EnqueueError, Enqueue, CallerPc
<1>6. CASE Reject(c)
  BY <1>6 DEF Reject, Finish, CallerPc, Status, Terminal, Open
<1>7. ASSUME NEW r \in Runs, NEW kind \in {"now", "delay", "invalid"}, Create(c, r, kind)
      PROVE  TypeOK'
  BY <1>7 DEF Create, CallerPc, Status, Open
<1>8. QED BY <1>1, <1>2, <1>3, <1>4, <1>5, <1>6, <1>7 DEF CallerStep

LEMMA WorkerTypeOK ==
  ASSUME TypeOK, NEW w \in Workers,
         WorkerStep(w) \/ ExecuteStep(w) \/ \E r \in Runs : TakeTask(w, r)
  PROVE  TypeOK'
<1> USE DEF TypeOK, rowVars, queueVars, procVars, callerVars, workerVars, cancelVars, obsVars,
            Unregistered, Registered
<1>1. CASE Claim(w)
  BY <1>1 DEF Claim, Status, Open
<1>2. CASE SkipClaimed(w)
  BY <1>2 DEF SkipClaimed, Return
<1>3. CASE EmitStarted(w)
  BY <1>3 DEF EmitStarted, Publish, Actions
<1>4. CASE Register(w)
  BY <1>4 DEF Register
<1>5. CASE LogFails(w)
  BY <1>5 DEF LogFails, Finish, Status, Terminal, Open
<1>6. CASE ExecuteHere(w)
  BY <1>6 DEF ExecuteHere
<1>7. CASE SelectRunner(w)
  BY <1>7 DEF SelectRunner
<1>8. CASE OpenSession(w)
  BY <1>8 DEF OpenSession
<1>9. CASE Recover(w)
  BY <1>9 DEF Recover, Return, Finish, Status, Terminal, Open
<1>10. CASE FinishRun(w)
  BY <1>10 DEF FinishRun, Finish, Status, Terminal, Open
<1>11. CASE EmitResult(w)
  BY <1>11 DEF EmitResult, Publish, Actions, Terminal
<1>12. CASE Leave(w)
  BY <1>12 DEF Leave, Return
<1>13. CASE Timeout(w)
  BY <1>13 DEF Timeout
<1>14. CASE ExecuteOk(w)
  BY <1>14 DEF ExecuteOk, Terminal, Executing
<1>15. CASE ExecuteErr(w)
  BY <1>15 DEF ExecuteErr, Terminal, Executing
<1>16. CASE Panic(w)
  BY <1>16 DEF Panic, Executing
<1>17. ASSUME NEW r \in Runs, TakeTask(w, r)
       PROVE  TypeOK'
  BY <1>17 DEF TakeTask
<1>18. QED
  BY <1>1, <1>2, <1>3, <1>4, <1>5, <1>6, <1>7, <1>8, <1>9, <1>10, <1>11, <1>12, <1>13,
     <1>14, <1>15, <1>16, <1>17 DEF WorkerStep, ExecuteStep

LEMMA CancelTypeOK ==
  ASSUME TypeOK, NEW k \in Cancellers, CancelStep(k)
  PROVE  TypeOK'
<1> USE DEF TypeOK, rowVars, queueVars, procVars, callerVars, workerVars, cancelVars, obsVars,
            CancelPc
<1>1. ASSUME NEW r \in Runs, CancelRead(k, r)
      PROVE  TypeOK'
  BY <1>1 DEF CancelRead
<1>2. CASE CancelUpdate(k)
  BY <1>2 DEF CancelUpdate, Finish, Status, Terminal, Open
<1>3. CASE CancelHub(k)
  BY <1>3 DEF CancelHub
<1>4. CASE CancelLocal(k)
  BY <1>4 DEF CancelLocal
<1>5. QED BY <1>1, <1>2, <1>3, <1>4 DEF CancelStep

LEMMA InstanceTypeOK ==
  ASSUME TypeOK, NEW i \in Instances, InstanceStep(i)
  PROVE  TypeOK'
<1> USE DEF TypeOK, rowVars, queueVars, procVars, callerVars, workerVars, cancelVars, obsVars
<1>1. CASE ReadDue(i)
  BY <1>1 DEF ReadDue
<1>2. ASSUME NEW r \in Runs, DispatchDue(i, r)
      PROVE  TypeOK'
  <2>1. dueList' \in [Instances -> SUBSET Runs]
    BY <1>2 DEF DispatchDue
  <2>2. CASE Enqueue(r) \/ UNCHANGED <<queueVars, workerVars>>
    BY <1>2, <2>1, <2>2 DEF DispatchDue, Enqueue
  <2>3. CASE Spawn(i, r)
    BY <1>2, <2>1, <2>3, SpawnTypeOK DEF DispatchDue
  <2>4. QED
    BY <1>2, <2>2, <2>3 DEF DispatchDue, Dispatch
<1>3. CASE Crash(i)
  <2>1. /\ inst' \in [Instances -> {"down", "starting", "up"}]
        /\ registry' \in [Instances -> [Runs -> Workers \cup {NoWorker}]]
        /\ dueList' \in [Instances -> SUBSET Runs]
        /\ crashes' \in Nat
    BY <1>3 DEF Crash
  <2>2. /\ tpc' \in [Callers -> CallerPc] /\ trun' \in [Callers -> Runs \cup {NoRun}]
        /\ \A c \in Callers : tpc'[c] \in {"created", "dispatch", "reject"} => trun'[c] \in Runs
    BY <1>3 DEF Crash, CallerPc
  <2>3. /\ wpc' \in [Workers -> Unregistered \cup Registered]
        /\ wrun' \in [Workers -> Runs \cup {NoRun}]
        /\ \A w \in Workers : wpc'[w] # "idle" => wrun'[w] \in Runs
    BY <1>3 DEF Crash, Unregistered
  <2>4. /\ wctx' \in [Workers -> {"live", "cancelled", "deadline"}]
        /\ wres' \in [Workers -> {"none"} \cup Terminal]
        /\ \A w \in Workers : wpc'[w] \in {"finish", "emit"} => wres'[w] \in Terminal
    BY <1>3 DEF Crash
  <2>5. /\ cpc' \in [Cancellers -> CancelPc]
        /\ \A k \in Cancellers : cpc'[k] # "idle" => crun'[k] \in Runs
    BY <1>3 DEF Crash, CancelPc
  <2>6. QED
    BY <1>3, <2>1, <2>2, <2>3, <2>4, <2>5 DEF Crash
<1>4. CASE Boot(i)
  BY <1>4 DEF Boot
<1>5. CASE OrphanSweep(i)
  BY <1>5 DEF OrphanSweep, Status, Terminal
<1>6. ASSUME NEW r \in Runs, OfflineSweep(i, r)
      PROVE  TypeOK'
  BY <1>6 DEF OfflineSweep, Status, Terminal
<1>7. QED BY <1>1, <1>2, <1>3, <1>4, <1>5, <1>6 DEF InstanceStep

LEMMA NextTypeOK == TypeOK /\ [Next]_vars => TypeOK'
<1> SUFFICES ASSUME TypeOK, [Next]_vars
             PROVE  TypeOK'
  OBVIOUS
<1>1. ASSUME NEW r \in Runs, BecomeDue(r)
      PROVE  TypeOK'
  BY <1>1 DEF BecomeDue, TypeOK, rowVars, queueVars, procVars, callerVars, workerVars,
              cancelVars, obsVars
<1>2. CASE UNCHANGED vars
  BY <1>2 DEF vars, TypeOK, rowVars, queueVars, procVars, callerVars, workerVars,
              cancelVars, obsVars
<1>3. QED
  BY <1>1, <1>2, CallerTypeOK, WorkerTypeOK, CancelTypeOK, InstanceTypeOK DEF Next

\* Every variable keeps its declared shape in every reachable state.
THEOREM TypeCorrect == Spec => []TypeOK
  BY InitTypeOK, NextTypeOK, PTL DEF Spec

-----------------------------------------------------------------------------
(* What a step may do to the rows: nothing, insert one, claim one, or close *)
(* a set of open ones; only the worker that claimed a run reports success.  *)

RowCreate ==
    \E r \in Runs : /\ status[r] = "none"
                    /\ status' = [status EXCEPT ![r] = "pending"]
                    /\ UNCHANGED claims

RowClose ==
    \E S \in SUBSET Runs, st \in Terminal :
        /\ \A r \in S : status[r] \in Open
        /\ st = "success" => \E w \in Workers : PastClaim(w) /\ S = {wrun[w]}
        /\ status' = [r \in Runs |-> IF r \in S THEN st ELSE status[r]]
        /\ UNCHANGED claims

RowStep == RowCreate \/ RowClose \/ UNCHANGED <<status, claims>>

\* FinishPipelineRun closes the row or leaves it alone.
LEMMA FinishCloses ==
  ASSUME TypeOK, NEW r \in Runs, NEW st \in Terminal, Finish(r, st), UNCHANGED claims,
         st = "success" => \E w \in Workers : PastClaim(w) /\ r = wrun[w]
  PROVE  RowStep
<1>1. CASE status[r] \in Open
  <2>1. status' = [q \in Runs |-> IF q \in {r} THEN st ELSE status[q]]
    BY <1>1 DEF Finish, TypeOK
  <2>2. st = "success" => \E w \in Workers : PastClaim(w) /\ {r} = {wrun[w]}
    OBVIOUS
  <2>3. \A q \in {r} : status[q] \in Open
    BY <1>1
  <2>4. RowClose
    BY <2>1, <2>2, <2>3 DEF RowClose
  <2>5. QED BY <2>4 DEF RowStep
<1>2. CASE status[r] \notin Open
  BY <1>2 DEF Finish, RowStep
<1>3. QED BY <1>1, <1>2

LEMMA CallerRowStep ==
  ASSUME TypeOK, NEW c \in Callers, CheckActive(c) \/ CallerStep(c)
  PROVE  RowStep /\ UNCHANGED registry
         /\ \A w \in Workers : wpc'[w] \notin {"idle", "start"} =>
               wpc'[w] = wpc[w] /\ wrun'[w] = wrun[w]
<1> USE DEF rowVars, queueVars, procVars, callerVars, workerVars, cancelVars, obsVars
<1>1. CASE CheckActive(c) \/ Decline(c) \/ EmitQueued(c) \/ EnqueueError(c)
  BY <1>1 DEF CheckActive, Decline, EmitQueued, EnqueueError, Enqueue, RowStep
<1>2. CASE DispatchNow(c)
  <2>1. UNCHANGED <<status, claims, registry>>
    BY <1>2 DEF DispatchNow
  <2>2. CASE Enqueue(trun[c])
    BY <1>2, <2>1, <2>2 DEF Enqueue, RowStep
  <2>3. CASE Spawn(Home[c], trun[c])
    BY <1>2, <2>1, <2>3 DEF Spawn, RowStep, TypeOK
  <2>4. QED BY <1>2, <2>2, <2>3 DEF DispatchNow, Dispatch
<1>3. CASE Reject(c)
  BY <1>3, FinishCloses DEF Reject, TypeOK, Terminal
<1>4. ASSUME NEW r \in Runs, NEW kind \in {"now", "delay", "invalid"}, Create(c, r, kind)
      PROVE  /\ RowStep /\ UNCHANGED registry
             /\ UNCHANGED <<wpc, wrun>>
  BY <1>4 DEF Create, RowStep, RowCreate
<1>5. QED BY <1>1, <1>2, <1>3, <1>4 DEF CallerStep

LEMMA CancelRowStep ==
  ASSUME TypeOK, NEW k \in Cancellers, CancelStep(k)
  PROVE  RowStep /\ UNCHANGED <<registry, wpc, wrun>>
<1> USE DEF rowVars, queueVars, procVars, callerVars, workerVars, cancelVars, obsVars
<1>1. ASSUME NEW r \in Runs, CancelRead(k, r)
      PROVE  RowStep /\ UNCHANGED <<registry, wpc, wrun>>
  BY <1>1 DEF CancelRead, RowStep
<1>2. CASE CancelUpdate(k)
  BY <1>2, FinishCloses DEF CancelUpdate, TypeOK, Terminal
<1>3. CASE CancelHub(k) \/ CancelLocal(k)
  BY <1>3 DEF CancelHub, CancelLocal, RowStep
<1>4. QED BY <1>1, <1>2, <1>3 DEF CancelStep

\* A worker's own step, apart from the claim: it only moves that worker.
LEMMA WorkerRowStep ==
  ASSUME TypeOK, NEW w \in Workers, ~Claim(w),
         WorkerStep(w) \/ ExecuteStep(w) \/ \E r \in Runs : TakeTask(w, r)
  PROVE  RowStep
         /\ (PastClaim(w)' => PastClaim(w) /\ wrun'[w] = wrun[w])
         /\ \A v \in Workers \ {w} : wpc'[v] = wpc[v] /\ wrun'[v] = wrun[v]
<1> USE DEF rowVars, queueVars, procVars, callerVars, workerVars, cancelVars, obsVars,
            PastClaim, TypeOK
<1>1. CASE SkipClaimed(w)
  BY <1>1 DEF SkipClaimed, Return, RowStep
<1>2. CASE EmitStarted(w) \/ Register(w) \/ ExecuteHere(w) \/ SelectRunner(w) \/ OpenSession(w)
  BY <1>2 DEF EmitStarted, Register, ExecuteHere, SelectRunner, OpenSession, RowStep
<1>3. CASE LogFails(w)
  BY <1>3, FinishCloses DEF LogFails, Terminal
<1>4. CASE Recover(w)
  BY <1>4, FinishCloses DEF Recover, Return, Terminal
<1>5. CASE FinishRun(w)
  BY <1>5, FinishCloses DEF FinishRun
<1>6. CASE EmitResult(w) \/ Timeout(w) \/ ExecuteOk(w) \/ ExecuteErr(w) \/ Panic(w)
  BY <1>6 DEF EmitResult, Timeout, ExecuteOk, ExecuteErr, Panic, Executing, RowStep
<1>7. CASE Leave(w)
  BY <1>7 DEF Leave, Return, RowStep
<1>8. ASSUME NEW r \in Runs, TakeTask(w, r)
      PROVE  RowStep
             /\ wpc' = [wpc EXCEPT ![w] = "start"] /\ wrun' = [wrun EXCEPT ![w] = r]
  BY <1>8 DEF TakeTask, RowStep
<1>9. CASE \E r \in Runs : TakeTask(w, r)
  BY <1>8, <1>9
<1>10. QED
  BY <1>1, <1>2, <1>3, <1>4, <1>5, <1>6, <1>7, <1>9 DEF WorkerStep, ExecuteStep

\* A whole server's step: workers keep their place, or end with the server.
LEMMA InstanceRowStep ==
  ASSUME TypeOK, NEW i \in Instances, InstanceStep(i)
  PROVE  RowStep
         /\ \A w \in Workers : PastClaim(w)' => wpc'[w] = wpc[w] /\ wrun'[w] = wrun[w]
<1> USE DEF rowVars, queueVars, procVars, callerVars, workerVars, cancelVars, obsVars,
            PastClaim, TypeOK
<1>1. CASE ReadDue(i) \/ Boot(i)
  BY <1>1 DEF ReadDue, Boot, RowStep
<1>2. CASE Crash(i)
  BY <1>2 DEF Crash, RowStep
<1>3. CASE OrphanSweep(i)
  <2>1. PICK stale \in StaleSets :
          status' = [r \in Runs |-> IF r \in stale THEN "failed" ELSE status[r]]
    BY <1>3 DEF OrphanSweep
  <2>2. stale \in SUBSET Runs /\ \A r \in stale : status[r] \in Open
    BY DEF StaleSets, Active
  <2>3. RowClose
    BY <1>3, <2>1, <2>2 DEF OrphanSweep, RowClose, Terminal
  <2>4. QED BY <1>3, <2>3 DEF OrphanSweep, RowStep
<1>4. ASSUME NEW r \in Runs, OfflineSweep(i, r)
      PROVE  RowStep /\ UNCHANGED <<wpc, wrun>>
  <2>1. Finish(r, "failed") /\ UNCHANGED <<claims, wpc, wrun>>
    BY <1>4 DEF OfflineSweep, Finish, Open
  <2>2. QED BY <2>1, FinishCloses DEF Terminal
<1>5. ASSUME NEW r \in Runs, DispatchDue(i, r)
      PROVE  RowStep
             /\ \A w \in Workers : PastClaim(w)' => wpc'[w] = wpc[w] /\ wrun'[w] = wrun[w]
  <2>1. RowStep
    BY <1>5 DEF DispatchDue, RowStep
  <2>2. CASE UNCHANGED workerVars
    BY <2>1, <2>2
  <2>3. CASE Spawn(i, r)
    BY <2>1, <2>3 DEF Spawn
  <2>4. QED BY <1>5, <2>2, <2>3 DEF DispatchDue, Dispatch, Enqueue
<1>6. QED BY <1>1, <1>2, <1>3, <1>4, <1>5 DEF InstanceStep

\* Every step but a claim takes a row step, and creates no worker that is
\* past the claim.
Frame == \A w \in Workers : PastClaim(w)' => PastClaim(w) /\ wrun'[w] = wrun[w]

LEMMA NextRowStep ==
  ASSUME TypeOK, [Next]_vars
  PROVE  (RowStep /\ Frame) \/ \E w \in Workers : Claim(w)
<1>1. ASSUME NEW c \in Callers, CheckActive(c) \/ CallerStep(c)
      PROVE  RowStep /\ Frame
  BY <1>1, CallerRowStep DEF Frame, PastClaim
<1>2. ASSUME NEW w \in Workers, ~Claim(w),
             WorkerStep(w) \/ ExecuteStep(w) \/ \E r \in Runs : TakeTask(w, r)
      PROVE  RowStep /\ Frame
  BY <1>2, WorkerRowStep DEF Frame, PastClaim
<1>3. ASSUME NEW k \in Cancellers, CancelStep(k)
      PROVE  RowStep /\ Frame
  BY <1>3, CancelRowStep DEF Frame, PastClaim
<1>4. ASSUME NEW i \in Instances, InstanceStep(i)
      PROVE  RowStep /\ Frame
  BY <1>4, InstanceRowStep DEF Frame, PastClaim
<1>5. ASSUME NEW r \in Runs, BecomeDue(r)
      PROVE  RowStep /\ Frame
  BY <1>5 DEF BecomeDue, RowStep, Frame, PastClaim, workerVars, obsVars
<1>6. CASE UNCHANGED vars
  BY <1>6 DEF vars, rowVars, workerVars, obsVars, RowStep, Frame, PastClaim
<1>7. QED BY <1>1, <1>2, <1>3, <1>4, <1>5, <1>6 DEF Next

-----------------------------------------------------------------------------
(* A run executes at most once.  The claim count is tied to the row (an     *)
(* unclaimed row was never claimed) and to the workers (one past the claim  *)
(* made the only claim), so a second claim finds no pending row.            *)

ClaimInv ==
    /\ \A r \in Runs : status[r] \in {"none", "pending"} => claims[r] = 0
    /\ \A w \in Workers : PastClaim(w) => claims[wrun[w]] = 1
    /\ ExecutesOnce

LEMMA RowStepClaimInv ==
  ASSUME TypeOK, ClaimInv, RowStep, Frame
  PROVE  ClaimInv'
<1>1. UNCHANGED claims
  BY DEF RowStep, RowCreate, RowClose
<1>2. \A r \in Runs : status'[r] \in {"none", "pending"} => status[r] \in {"none", "pending"}
  BY DEF RowStep, RowCreate, RowClose, TypeOK, Terminal
<1>3. \A w \in Workers : PastClaim(w)' => PastClaim(w) /\ wrun'[w] = wrun[w]
  BY DEF Frame
<1>4. (\A r \in Runs : status[r] \in {"none", "pending"} => claims[r] = 0)'
  BY <1>1, <1>2 DEF ClaimInv
<1>5. (\A w \in Workers : PastClaim(w) => claims[wrun[w]] = 1)'
  BY <1>1, <1>3 DEF ClaimInv
<1>6. ExecutesOnce'
  BY <1>1, <1>3 DEF ClaimInv, ExecutesOnce
<1>7. QED BY <1>4, <1>5, <1>6 DEF ClaimInv

LEMMA ClaimClaimInv ==
  ASSUME TypeOK, ClaimInv, NEW w \in Workers, Claim(w)
  PROVE  ClaimInv'
<1> DEFINE r == wrun[w]
<1>1. r \in Runs /\ status[r] = "pending" /\ claims[r] = 0
  BY DEF Claim, TypeOK, ClaimInv
<1>2. /\ status' = [status EXCEPT ![r] = "running"]
      /\ claims' = [claims EXCEPT ![r] = 1]
  BY <1>1 DEF Claim, TypeOK
<1>3. wpc' = [wpc EXCEPT ![w] = "claimed"] /\ wrun' = wrun
  BY DEF Claim
<1>4. \A v \in Workers : PastClaim(v) => wrun[v] # r
  BY <1>1 DEF ClaimInv
<1>5. \A v \in Workers : PastClaim(v)' <=> v = w \/ PastClaim(v)
  BY <1>3 DEF PastClaim, TypeOK
<1>6. \A v \in Workers : PastClaim(v) => wrun[v] \in Runs
  BY DEF PastClaim, TypeOK
<1>7. (\A q \in Runs : status[q] \in {"none", "pending"} => claims[q] = 0)'
  BY <1>1, <1>2 DEF ClaimInv, TypeOK
<1>8. (\A v \in Workers : PastClaim(v) => claims[wrun[v]] = 1)'
  <2> SUFFICES ASSUME NEW v \in Workers, PastClaim(v)'
               PROVE  claims'[wrun[v]] = 1
    BY <1>3
  <2>1. CASE v = w
    BY <1>1, <1>2, <2>1 DEF TypeOK
  <2>2. CASE v # w
    <3>1. PastClaim(v) /\ wrun[v] \in Runs /\ wrun[v] # r /\ claims[wrun[v]] = 1
      BY <1>4, <1>5, <1>6, <2>2 DEF ClaimInv
    <3>2. QED BY <1>2, <3>1 DEF TypeOK
  <2>3. QED BY <2>1, <2>2
<1>9. ExecutesOnce'
  <2>1. \A q \in Runs : claims'[q] <= 1
    BY <1>1, <1>2 DEF ClaimInv, ExecutesOnce, TypeOK
  <2>2. \A u, v \in Workers : PastClaim(u)' /\ PastClaim(v)' /\ wrun[u] = wrun[v] => u = v
    BY <1>4, <1>5 DEF ClaimInv, ExecutesOnce
  <2>3. QED BY <1>3, <2>1, <2>2 DEF ExecutesOnce
<1>10. QED BY <1>7, <1>8, <1>9 DEF ClaimInv

LEMMA ClaimInvariant == Spec => []ClaimInv
<1>1. Init => ClaimInv
  BY DEF Init, ClaimInv, ExecutesOnce, PastClaim
<1>2. TypeOK /\ ClaimInv /\ [Next]_vars => ClaimInv'
  BY NextRowStep, RowStepClaimInv, ClaimClaimInv
<1>3. QED BY <1>1, <1>2, TypeCorrect, PTL DEF Spec

\* ClaimPipelineRun makes the execution of a run exclusive and unrepeatable.
THEOREM RunsExecuteOnce == Spec => []ExecutesOnce
<1>1. ClaimInv => ExecutesOnce
  BY DEF ClaimInv
<1>2. QED BY <1>1, ClaimInvariant, PTL

-----------------------------------------------------------------------------
(* Closed rows stay closed, so a cancel that took effect is final.          *)

LEMMA ClosedStays ==
  ASSUME TypeOK, [Next]_vars, NEW r \in Runs, status[r] \in Terminal
  PROVE  status'[r] = status[r]
<1>1. CASE RowCreate
  BY <1>1 DEF RowCreate, TypeOK, Terminal
<1>2. CASE RowClose
  BY <1>2 DEF RowClose, Open, Terminal
<1>3. ASSUME NEW w \in Workers, Claim(w)
      PROVE  status'[r] = status[r]
  BY <1>3 DEF Claim, TypeOK, Terminal
<1>4. QED BY <1>1, <1>2, <1>3, NextRowStep DEF RowStep

\* A canceller reaches "hub", "local" or "ok" from those, or by the update.
LEMMA CancelFrame ==
  ASSUME TypeOK, [Next]_vars, NEW k \in Cancellers, cpc'[k] \in {"hub", "local", "ok"}
  PROVE  \/ CancelUpdate(k) /\ status[crun[k]] \in Open
         \/ cpc[k] \in {"hub", "local", "ok"} /\ crun'[k] = crun[k]
<1> USE DEF rowVars, queueVars, procVars, callerVars, workerVars, cancelVars, obsVars, TypeOK
<1>1. ASSUME NEW c \in Callers, CheckActive(c) \/ CallerStep(c)
      PROVE  UNCHANGED cancelVars
  BY <1>1 DEF CallerStep, CheckActive, Decline, EmitQueued, DispatchNow, EnqueueError,
              Reject, Create
<1>2. ASSUME NEW w \in Workers,
             WorkerStep(w) \/ ExecuteStep(w) \/ \E r \in Runs : TakeTask(w, r)
      PROVE  UNCHANGED cancelVars
  BY <1>2 DEF WorkerStep, ExecuteStep, TakeTask, Claim, SkipClaimed, EmitStarted, Register,
              LogFails, ExecuteHere, SelectRunner, OpenSession, Recover, FinishRun,
              EmitResult, Leave, Timeout, ExecuteOk, ExecuteErr, Panic
<1>3. ASSUME NEW l \in Cancellers, CancelStep(l)
      PROVE  \/ CancelUpdate(k) /\ status[crun[k]] \in Open
             \/ cpc[k] \in {"hub", "local", "ok"} /\ crun'[k] = crun[k]
  <2>1. ASSUME NEW r \in Runs, CancelRead(l, r)
        PROVE  cpc[k] \in {"hub", "local", "ok"} /\ crun'[k] = crun[k]
    BY <2>1 DEF CancelRead
  <2>2. CASE CancelUpdate(l)
    BY <2>2 DEF CancelUpdate
  <2>3. CASE CancelHub(l) \/ CancelLocal(l)
    BY <2>3 DEF CancelHub, CancelLocal
  <2>4. QED BY <1>3, <2>1, <2>2, <2>3 DEF CancelStep
<1>4. ASSUME NEW i \in Instances, InstanceStep(i)
      PROVE  cpc[k] \in {"hub", "local", "ok"} /\ crun'[k] = crun[k]
  <2>1. CASE Crash(i)
    BY <2>1 DEF Crash
  <2>2. CASE ReadDue(i) \/ Boot(i) \/ OrphanSweep(i)
             \/ \E r \in Runs : DispatchDue(i, r) \/ OfflineSweep(i, r)
    BY <2>2 DEF ReadDue, Boot, OrphanSweep, DispatchDue, OfflineSweep
  <2>3. QED BY <1>4, <2>1, <2>2 DEF InstanceStep
<1>5. ASSUME NEW r \in Runs, BecomeDue(r)
      PROVE  UNCHANGED cancelVars
  BY <1>5 DEF BecomeDue
<1>6. CASE UNCHANGED vars
  BY <1>6 DEF vars
<1>7. QED BY <1>1, <1>2, <1>3, <1>4, <1>5, <1>6 DEF Next

\* After CancelRun changed the row, no later step of anyone changes it back.
THEOREM CancelIsFinal == Spec => []CancelSticks
<1>1. Init => CancelSticks
  BY DEF Init, CancelSticks
<1>2. TypeOK /\ CancelSticks /\ [Next]_vars => CancelSticks'
  <2> SUFFICES ASSUME TypeOK, CancelSticks, [Next]_vars,
                      NEW k \in Cancellers, cpc'[k] \in {"hub", "local", "ok"}
               PROVE  status'[crun'[k]] = "cancelled"
    BY DEF CancelSticks
  <2>1. CASE CancelUpdate(k) /\ status[crun[k]] \in Open
    BY <2>1 DEF CancelUpdate, Finish, TypeOK
  <2>2. CASE cpc[k] \in {"hub", "local", "ok"} /\ crun'[k] = crun[k]
    <3>1. crun[k] \in Runs /\ status[crun[k]] = "cancelled"
      BY <2>2 DEF TypeOK, CancelSticks
    <3>2. QED BY <2>2, <3>1, ClosedStays DEF Terminal
  <2>3. QED BY <2>1, <2>2, CancelFrame
<1>3. QED BY <1>1, <1>2, TypeCorrect, PTL DEF Spec

-----------------------------------------------------------------------------
(* The rows implement RunLifecycle, with "was claimed" as claims > 0.       *)

claimed == {r \in Runs : claims[r] > 0}

LEMMA RowStepRefines ==
  ASSUME TypeOK, ClaimInv, RowStep
  PROVE  [Lifecycle!LNext]_<<status, claimed>>
<1>1. CASE RowCreate
  <2>1. PICK r \in Runs : Lifecycle!LCreate(r)
    BY <1>1 DEF RowCreate, Lifecycle!LCreate
  <2>2. QED BY <2>1 DEF Lifecycle!LNext
<1>2. CASE RowClose
  <2>1. PICK S \in SUBSET Runs, st \in Terminal :
          /\ \A r \in S : status[r] \in Open
          /\ st = "success" => \E w \in Workers : PastClaim(w) /\ S = {wrun[w]}
          /\ status' = [r \in Runs |-> IF r \in S THEN st ELSE status[r]]
          /\ UNCHANGED claims
    BY <1>2 DEF RowClose
  <2> DEFINE end == [r \in S |-> st]
  <2>2. end \in [S -> {"success", "failed", "cancelled"}]
    BY DEF Terminal
  <2>3. \A r \in S : end[r] = "success" => r \in claimed
    BY <2>1 DEF ClaimInv, TypeOK, claimed
  <2>4. status' = [r \in Runs |-> IF r \in S THEN end[r] ELSE status[r]]
    BY <2>1
  <2>5. \A r \in S : status[r] \in {"pending", "running"}
    BY <2>1 DEF Open
  <2>6. claimed' = claimed
    BY <2>1 DEF claimed
  <2> HIDE DEF end
  <2>7. Lifecycle!LClose(S)
    BY <2>2, <2>3, <2>4, <2>5, <2>6 DEF Lifecycle!LClose, claimed
  <2>8. QED BY <2>7 DEF Lifecycle!LNext
<1>3. CASE UNCHANGED <<status, claims>>
  BY <1>3 DEF claimed
<1>4. QED BY <1>1, <1>2, <1>3 DEF RowStep

LEMMA ClaimRefines ==
  ASSUME TypeOK, ClaimInv, NEW w \in Workers, Claim(w)
  PROVE  Lifecycle!LNext
<1>1. PICK r \in Runs : r = wrun[w]
  BY DEF Claim, TypeOK
<1>2. status[r] = "pending" /\ claims[r] = 0
  BY <1>1 DEF Claim, ClaimInv
<1>3. claims' = [claims EXCEPT ![r] = 1] /\ status' = [status EXCEPT ![r] = "running"]
  BY <1>1, <1>2 DEF Claim, TypeOK
<1>4. claimed' = claimed \cup {r} /\ r \notin claimed
  BY <1>2, <1>3 DEF claimed, TypeOK
<1>5. Lifecycle!LClaim(r)
  BY <1>2, <1>3, <1>4 DEF Lifecycle!LClaim, claimed
<1>6. QED BY <1>5 DEF Lifecycle!LNext

\* Triggers, workers, cancels, sweeps and crashes together keep the promise
\* that RunLifecycle makes to the rest of the server.
THEOREM ImplementsLifecycle == Spec => RefinesLifecycle
<1>1. Init => Lifecycle!LInit
  BY DEF Init, Lifecycle!LInit
<1>2. TypeOK /\ ClaimInv /\ [Next]_vars => [Lifecycle!LNext]_<<status, claimed>>
  BY NextRowStep, RowStepRefines, ClaimRefines
<1>3. QED
  BY <1>1, <1>2, TypeCorrect, ClaimInvariant, PTL
     DEF Spec, RefinesLifecycle, Lifecycle!LSpec, claimed

-----------------------------------------------------------------------------
(* The registry: a run's entry on an instance is that of the thread that    *)
(* executes it.  A foreign entry could only appear, or be deleted, through  *)
(* a second thread on the same run, and there is none (ClaimInv).           *)

\* An executing worker got there by Register, or kept run and entry.
LEMMA RegistryFrame ==
  ASSUME TypeOK, ClaimInv, [Next]_vars, NEW w \in Workers, wpc'[w] \in Registered
  PROVE  \/ Register(w)
         \/ /\ wpc[w] \in Registered /\ wrun'[w] = wrun[w]
            /\ registry'[Home[w]][wrun[w]] = registry[Home[w]][wrun[w]]
<1> DEFINE Kept == /\ wpc[w] \in Registered /\ wrun'[w] = wrun[w]
                   /\ registry'[Home[w]][wrun[w]] = registry[Home[w]][wrun[w]]
<1> USE DEF rowVars, queueVars, procVars, callerVars, workerVars, cancelVars, obsVars
<1>1. ASSUME NEW c \in Callers, CheckActive(c) \/ CallerStep(c)
      PROVE  Kept
  BY <1>1, CallerRowStep DEF Registered
<1>2. ASSUME NEW k \in Cancellers, CancelStep(k)
      PROVE  Kept
  BY <1>2, CancelRowStep
<1>3. ASSUME NEW i \in Instances, InstanceStep(i)
      PROVE  Kept
  <2>1. wpc[w] = wpc'[w] /\ wrun'[w] = wrun[w]
    BY <1>3, InstanceRowStep DEF Registered, PastClaim
  <2>2. CASE Crash(i)
    <3>1. Home[w] # i
      BY <2>2 DEF Crash, Registered
    <3>2. QED BY <2>1, <2>2, <3>1 DEF Crash, TypeOK
  <2>3. CASE ReadDue(i) \/ Boot(i) \/ OrphanSweep(i)
             \/ \E r \in Runs : DispatchDue(i, r) \/ OfflineSweep(i, r)
    BY <2>1, <2>3 DEF ReadDue, Boot, OrphanSweep, DispatchDue, OfflineSweep
  <2>4. QED BY <1>3, <2>2, <2>3 DEF InstanceStep
<1>4. ASSUME NEW v \in Workers, v # w,
             WorkerStep(v) \/ ExecuteStep(v) \/ \E r \in Runs : TakeTask(v, r)
      PROVE  Kept
  <2>1. wpc'[w] = wpc[w] /\ wrun'[w] = wrun[w]
    <3>1. CASE Claim(v)
      BY <1>4, <3>1 DEF Claim, TypeOK
    <3>2. CASE ~Claim(v)
      BY <1>4, <3>2, WorkerRowStep
    <3>3. QED BY <3>1, <3>2
  <2>2. CASE UNCHANGED registry
    BY <2>1, <2>2
  <2>3. ASSUME PastClaim(v), NEW x, registry' = [registry EXCEPT ![Home[v]][wrun[v]] = x]
        PROVE  Kept
    <3>1. wrun[v] # wrun[w]
      BY <1>4, <2>1, <2>3 DEF ClaimInv, ExecutesOnce, PastClaim, Registered
    <3>2. wrun[v] \in Runs /\ wrun[w] \in Runs
      BY <2>1, <2>3 DEF TypeOK, PastClaim, Registered
    <3>3. QED BY <2>1, <2>3, <3>1, <3>2 DEF TypeOK
  <2>4. CASE Register(v) \/ Panic(v) \/ Leave(v)
    BY <2>3, <2>4 DEF Register, Panic, Leave, PastClaim, Executing
  <2>5. QED
    BY <1>4, <2>2, <2>4
       DEF WorkerStep, ExecuteStep, TakeTask, Claim, SkipClaimed, EmitStarted, LogFails,
           ExecuteHere, SelectRunner, OpenSession, Recover, FinishRun, EmitResult,
           Timeout, ExecuteOk, ExecuteErr
<1>5. ASSUME WorkerStep(w) \/ ExecuteStep(w) \/ \E r \in Runs : TakeTask(w, r)
      PROVE  Register(w) \/ Kept
  <2>1. ~(Claim(w) \/ SkipClaimed(w) \/ EmitStarted(w) \/ Recover(w) \/ Leave(w)
          \/ Panic(w) \/ \E r \in Runs : TakeTask(w, r))
    BY DEF Claim, SkipClaimed, EmitStarted, Recover, Leave, Panic, TakeTask, Return,
           TypeOK, Registered
  <2>2. CASE LogFails(w) \/ ExecuteHere(w) \/ SelectRunner(w) \/ OpenSession(w)
             \/ FinishRun(w) \/ EmitResult(w)
    BY <2>2 DEF LogFails, ExecuteHere, SelectRunner, OpenSession, FinishRun, EmitResult,
                Registered
  <2>3. CASE Timeout(w) \/ ExecuteOk(w) \/ ExecuteErr(w)
    BY <2>3 DEF Timeout, ExecuteOk, ExecuteErr, Executing, Registered
  <2>4. QED BY <1>5, <2>1, <2>2, <2>3 DEF WorkerStep, ExecuteStep
<1>6. ASSUME NEW r \in Runs, BecomeDue(r)
      PROVE  Kept
  BY <1>6 DEF BecomeDue
<1>7. CASE UNCHANGED vars
  BY <1>7 DEF vars
<1>8. QED BY <1>1, <1>2, <1>3, <1>4, <1>5, <1>6, <1>7 DEF Next

\* The cancel function of an executing run is registered under its id, on the
\* instance that executes it, until the run leaves.
THEOREM ExecutingIsRegistered == Spec => []RegisteredWhileExecuting
<1>1. Init => RegisteredWhileExecuting
  BY DEF Init, RegisteredWhileExecuting, Registered
<1>2. TypeOK /\ ClaimInv /\ RegisteredWhileExecuting /\ [Next]_vars
        => RegisteredWhileExecuting'
  <2> SUFFICES ASSUME TypeOK, ClaimInv, RegisteredWhileExecuting, [Next]_vars,
                      NEW w \in Workers, wpc'[w] \in Registered
               PROVE  registry'[Home[w]][wrun'[w]] = w
    BY DEF RegisteredWhileExecuting
  <2>1. CASE Register(w)
    BY <2>1 DEF Register, TypeOK
  <2>2. QED BY <2>1, RegistryFrame DEF RegisteredWhileExecuting
<1>3. QED BY <1>1, <1>2, TypeCorrect, ClaimInvariant, PTL DEF Spec

-----------------------------------------------------------------------------
(* Who may still dispatch a run.  A caller holds the row it inserted until  *)
(* it dispatched or rejected it; the delayed runner reads rows whose time   *)
(* has come; nobody else puts a run in the queue or on a worker.            *)

Holds(c) == tpc[c] \in {"created", "dispatch", "reject"}
Works(w) == wpc[w] # "idle"
Dispatched(r) == r \in queued \/ \E w \in Workers : Works(w) /\ wrun[w] = r

\* One caller per row; a row is held only after its insert, and dispatched at
\* once only when it has no run_at.
HolderInv ==
    /\ \A c, d \in Callers : Holds(c) /\ Holds(d) /\ trun[c] = trun[d] => c = d
    /\ \A c \in Callers : Holds(c) => status[trun[c]] # "none"
    /\ \A c \in Callers : tpc[c] = "dispatch" => runAt[trun[c]] = "none"

ClockInv ==
    /\ \A r \in Runs : status[r] = "none" => runAt[r] = "none"
    /\ \A r \in Runs : status[r] = "running" => runAt[r] # "future"
    /\ \A i \in Instances : \A r \in dueList[i] : runAt[r] = "due"

\* An immediate run is not dispatched before its "queued" event.
HandedInv ==
    \A r \in Runs : Dispatched(r) =>
      /\ status[r] # "none" /\ runAt[r] # "future"
      /\ runAt[r] = "none" => \A c \in Callers : tpc[c] = "created" => trun[c] # r

DispatchInv == HolderInv /\ ClockInv /\ HandedInv

\* A step that inserts no row, moves no clock and hands no run to anyone.
DispatchFrame ==
    /\ UNCHANGED runAt
    /\ \A c \in Callers : Holds(c)' => tpc'[c] = tpc[c] /\ trun'[c] = trun[c]
    /\ \A r \in Runs : status'[r] = "none" <=> status[r] = "none"
    /\ \A r \in Runs : status'[r] = "running" => status[r] = "running" \/ Dispatched(r)
    /\ \A i \in Instances : dueList'[i] \subseteq dueList[i]
    /\ \A r \in Runs : Dispatched(r)' => Dispatched(r)

LEMMA FrameDispatchInv ==
  ASSUME TypeOK, DispatchInv, DispatchFrame
  PROVE  DispatchInv'
<1>1. \A c \in Callers : Holds(c)' => Holds(c) /\ trun[c] \in Runs
  BY DEF Holds, TypeOK, DispatchFrame
<1>2. HolderInv'
  BY <1>1 DEF DispatchInv, HolderInv, DispatchFrame, Holds
<1>3. ClockInv'
  BY DEF DispatchInv, ClockInv, HandedInv, DispatchFrame, TypeOK
<1>4. HandedInv'
  BY DEF DispatchInv, HandedInv, DispatchFrame, Holds
<1>5. QED BY <1>2, <1>3, <1>4 DEF DispatchInv

LEMMA CallerDispatchInv ==
  ASSUME TypeOK, DispatchInv, NEW c \in Callers, CheckActive(c) \/ CallerStep(c)
  PROVE  DispatchInv'
<1> USE DEF rowVars, queueVars, procVars, callerVars, workerVars, cancelVars, obsVars
<1>1. CASE CheckActive(c) \/ Decline(c)
  <2>1. DispatchFrame
    BY <1>1 DEF CheckActive, Decline, DispatchFrame, Dispatched, Works, Holds, TypeOK
  <2>2. QED BY <2>1, FrameDispatchInv
<1>2. CASE EmitQueued(c)
  <2>1. /\ tpc[c] = "created"
        /\ UNCHANGED <<rowVars, queueVars, procVars, workerVars>>
    BY <1>2 DEF EmitQueued
  <2>2. \/ /\ runAt[trun[c]] # "none"
           /\ tpc'  = [tpc EXCEPT ![c] = "idle"]
           /\ trun' = [trun EXCEPT ![c] = NoRun]
        \/ /\ runAt[trun[c]] = "none"
           /\ tpc'  = [tpc EXCEPT ![c] = "dispatch"]
           /\ trun' = trun
    BY <1>2, Zenon DEF EmitQueued
  <2>3. \A d \in Callers :
          /\ Holds(d)' => Holds(d) /\ trun'[d] = trun[d]
          /\ tpc'[d] = "created" => tpc[d] = "created"
          /\ tpc'[d] = "dispatch" => tpc[d] = "dispatch" \/ runAt[trun[d]] = "none"
    BY <2>1, <2>2 DEF Holds, TypeOK
  <2>4. HolderInv'
    BY <2>1, <2>3 DEF DispatchInv, HolderInv, Holds
  <2>5. ClockInv' /\ \A r \in Runs : Dispatched(r)' <=> Dispatched(r)
    BY <2>1 DEF DispatchInv, ClockInv, Dispatched, Works
  <2>6. HandedInv'
    BY <2>1, <2>3, <2>5 DEF DispatchInv, HandedInv, Holds
  <2>7. QED BY <2>4, <2>5, <2>6 DEF DispatchInv
<1>3. CASE DispatchNow(c)
  <2>1. /\ tpc[c] = "dispatch" /\ trun[c] \in Runs
        /\ UNCHANGED <<rowVars, procVars>>
        /\ tpc'  = [tpc EXCEPT ![c] = "idle"]
        /\ trun' = [trun EXCEPT ![c] = NoRun]
    BY <1>3 DEF DispatchNow, TypeOK
  <2>2. \A r \in Runs : Dispatched(r)' => Dispatched(r) \/ r = trun[c]
    <3>1. CASE Enqueue(trun[c])
      BY <3>1 DEF Enqueue, Dispatched, Works
    <3>2. CASE Spawn(Home[c], trun[c])
      BY <3>2 DEF Spawn, Dispatched, Works, TypeOK
    <3>3. QED BY <1>3, <3>1, <3>2 DEF DispatchNow, Dispatch
  <2>3. \A d \in Callers : tpc[d] = "created" => trun[d] # trun[c]
    BY <2>1 DEF DispatchInv, HolderInv, Holds
  <2>4. runAt[trun[c]] = "none" /\ status[trun[c]] # "none"
    BY <2>1 DEF DispatchInv, HolderInv, Holds
  <2>5. \A d \in Callers : Holds(d)' => Holds(d) /\ trun'[d] = trun[d] /\ tpc'[d] = tpc[d]
    BY <2>1 DEF Holds, TypeOK
  <2>6. HandedInv'
    BY <2>1, <2>2, <2>3, <2>4, <2>5 DEF DispatchInv, HandedInv, Holds
  <2>7. HolderInv' /\ ClockInv'
    BY <2>1, <2>5 DEF DispatchInv, HolderInv, ClockInv, Holds
  <2>8. QED BY <2>6, <2>7 DEF DispatchInv
<1>4. CASE EnqueueError(c)
  <2>1. /\ tpc[c] = "dispatch" /\ trun[c] \in Runs
        /\ UNCHANGED <<rowVars, procVars, trun>>
        /\ tpc'  = [tpc EXCEPT ![c] = "reject"]
        /\ \A r \in Runs : Dispatched(r)' => Dispatched(r) \/ r = trun[c]
    BY <1>4 DEF EnqueueError, Enqueue, Dispatched, Works, TypeOK
  <2>2. /\ \A d \in Callers : Holds(d)' <=> Holds(d)
        /\ \A d \in Callers : tpc'[d] \in {"created", "dispatch"} => tpc'[d] = tpc[d]
    BY <2>1 DEF Holds, TypeOK
  <2>3. HolderInv' /\ ClockInv'
    BY <2>1, <2>2 DEF DispatchInv, HolderInv, ClockInv
  <2>4. HandedInv'
    BY <2>1, <2>2 DEF DispatchInv, HolderInv, HandedInv, Holds
  <2>5. QED BY <2>3, <2>4 DEF DispatchInv
<1>5. CASE Reject(c)
  <2>1. DispatchFrame
    BY <1>5 DEF Reject, Finish, DispatchFrame, Dispatched, Works, Holds, TypeOK, Open
  <2>2. QED BY <2>1, FrameDispatchInv
<1>6. ASSUME NEW r \in Runs, NEW kind \in {"now", "delay", "invalid"}, Create(c, r, kind)
      PROVE  DispatchInv'
  <2>1. ~Dispatched(r) /\ \A d \in Callers : Holds(d) => trun[d] # r
    BY <1>6 DEF Create, DispatchInv, HolderInv, HandedInv
  <2>2. \A i \in Instances : r \notin dueList[i]
    BY <1>6 DEF Create, DispatchInv, ClockInv
  <2>3. \A q \in Runs : Dispatched(q)' <=> Dispatched(q)
    BY <1>6 DEF Create, Dispatched, Works
  <2>4. /\ status' = [status EXCEPT ![r] = "pending"]
        /\ \A q \in Runs \ {r} : runAt'[q] = runAt[q]
        /\ UNCHANGED dueList
    BY <1>6 DEF Create, TypeOK
  <2>5. \A d \in Callers \ {c} : tpc'[d] = tpc[d] /\ trun'[d] = trun[d]
    BY <1>6 DEF Create, TypeOK
  <2>6. trun'[c] = r /\ tpc'[c] \in {"reject", "created"}
    BY <1>6 DEF Create, TypeOK
  <2>7. \A d \in Callers : Holds(d)' => d = c \/ (Holds(d) /\ trun[d] \in Runs \ {r})
    BY <2>1, <2>5 DEF Holds, TypeOK
  <2>8. HolderInv'
    <3>1. (\A d, e \in Callers : Holds(d) /\ Holds(e) /\ trun[d] = trun[e] => d = e)'
      BY <2>5, <2>6, <2>7 DEF DispatchInv, HolderInv
    <3>2. (\A d \in Callers : Holds(d) => status[trun[d]] # "none")'
      BY <2>4, <2>5, <2>6, <2>7 DEF DispatchInv, HolderInv, TypeOK
    <3>3. (\A d \in Callers : tpc[d] = "dispatch" => runAt[trun[d]] = "none")'
      BY <2>4, <2>5, <2>6, <2>7 DEF DispatchInv, HolderInv, Holds
    <3>4. QED BY <3>1, <3>2, <3>3 DEF HolderInv
  <2>9. ClockInv'
    BY <2>2, <2>4 DEF DispatchInv, ClockInv, TypeOK
  <2>10. HandedInv'
    <3> SUFFICES ASSUME NEW q \in Runs, Dispatched(q)
                 PROVE  /\ status'[q] # "none" /\ runAt'[q] # "future"
                        /\ runAt'[q] = "none" =>
                             \A d \in Callers : tpc'[d] = "created" => trun'[d] # q
      BY <2>3 DEF HandedInv
    <3>1. q # r
      BY <2>1
    <3>2. status'[q] = status[q] /\ runAt'[q] = runAt[q]
      BY <2>4, <3>1 DEF TypeOK
    <3>3. QED BY <2>5, <2>6, <3>1, <3>2 DEF DispatchInv, HandedInv
  <2>11. QED BY <2>8, <2>9, <2>10 DEF DispatchInv
<1>7. QED BY <1>1, <1>2, <1>3, <1>4, <1>5, <1>6 DEF CallerStep

LEMMA WorkerDispatchFrame ==
  ASSUME TypeOK, DispatchInv, NEW w \in Workers,
         WorkerStep(w) \/ ExecuteStep(w) \/ \E r \in Runs : TakeTask(w, r)
  PROVE  DispatchFrame
<1> USE DEF rowVars, queueVars, procVars, callerVars, workerVars, cancelVars, obsVars,
            Dispatched, Works, Holds, DispatchFrame, TypeOK
<1>1. CASE Claim(w)
  BY <1>1 DEF Claim
<1>2. CASE SkipClaimed(w)
  BY <1>2 DEF SkipClaimed, Return
<1>3. CASE EmitStarted(w) \/ Register(w) \/ ExecuteHere(w) \/ SelectRunner(w) \/ OpenSession(w)
  BY <1>3 DEF EmitStarted, Register, ExecuteHere, SelectRunner, OpenSession
<1>4. CASE LogFails(w)
  BY <1>4 DEF LogFails, Finish, Open
<1>5. CASE Recover(w)
  BY <1>5 DEF Recover, Return, Finish, Open
<1>6. CASE FinishRun(w)
  BY <1>6 DEF FinishRun, Finish, Open, Terminal
<1>7. CASE EmitResult(w) \/ Timeout(w) \/ ExecuteOk(w) \/ ExecuteErr(w) \/ Panic(w)
  BY <1>7 DEF EmitResult, Timeout, ExecuteOk, ExecuteErr, Panic, Executing
<1>8. CASE Leave(w)
  BY <1>8 DEF Leave, Return
<1>9. CASE \E r \in Runs : TakeTask(w, r)
  BY <1>9 DEF TakeTask
<1>10. QED
  BY <1>1, <1>2, <1>3, <1>4, <1>5, <1>6, <1>7, <1>8, <1>9 DEF WorkerStep, ExecuteStep

LEMMA CancelDispatchFrame ==
  ASSUME TypeOK, NEW k \in Cancellers, CancelStep(k)
  PROVE  DispatchFrame
<1> USE DEF rowVars, queueVars, procVars, callerVars, workerVars, cancelVars, obsVars,
            Dispatched, Works, Holds, DispatchFrame
<1>1. ASSUME NEW r \in Runs, CancelRead(k, r)
      PROVE  DispatchFrame
  BY <1>1 DEF CancelRead
<1>2. CASE CancelUpdate(k)
  BY <1>2 DEF CancelUpdate, Finish, Open, TypeOK
<1>3. CASE CancelHub(k) \/ CancelLocal(k)
  BY <1>3 DEF CancelHub, CancelLocal
<1>4. QED BY <1>1, <1>2, <1>3 DEF CancelStep

LEMMA InstanceDispatchInv ==
  ASSUME TypeOK, DispatchInv, NEW i \in Instances, InstanceStep(i)
  PROVE  DispatchInv'
<1> USE DEF rowVars, queueVars, procVars, callerVars, workerVars, cancelVars, obsVars
<1>1. CASE ReadDue(i)
  BY <1>1 DEF ReadDue, DispatchInv, HolderInv, ClockInv, HandedInv, Dispatched, Works, Holds,
              TypeOK
<1>2. ASSUME NEW r \in Runs, DispatchDue(i, r)
      PROVE  DispatchInv'
  <2>1. /\ runAt[r] = "due" /\ status[r] # "none"
        /\ UNCHANGED <<rowVars, callerVars>>
        /\ \A j \in Instances : dueList'[j] \subseteq dueList[j]
    BY <1>2 DEF DispatchDue, DispatchInv, ClockInv, TypeOK
  <2>2. \A q \in Runs : Dispatched(q)' => Dispatched(q) \/ q = r
    <3>1. CASE Enqueue(r) \/ UNCHANGED <<queueVars, workerVars>>
      BY <3>1 DEF Enqueue, Dispatched, Works
    <3>2. CASE Spawn(i, r)
      BY <3>2 DEF Spawn, Dispatched, Works, TypeOK
    <3>3. QED BY <1>2, <3>1, <3>2 DEF DispatchDue, Dispatch
  <2>3. HolderInv' /\ ClockInv'
    BY <2>1 DEF DispatchInv, HolderInv, ClockInv, Holds
  <2>4. HandedInv'
    BY <2>1, <2>2 DEF DispatchInv, HandedInv
  <2>5. QED BY <2>3, <2>4 DEF DispatchInv
<1>3. CASE Crash(i)
  <2>1. DispatchFrame
    <3>1. \A r \in Runs : Dispatched(r)' => Dispatched(r)
      BY <1>3 DEF Crash, Dispatched, Works
    <3>2. \A c \in Callers : Holds(c)' => tpc'[c] = tpc[c] /\ trun'[c] = trun[c]
      BY <1>3 DEF Crash, Holds
    <3>3. QED BY <1>3, <3>1, <3>2 DEF Crash, DispatchFrame, TypeOK
  <2>2. QED BY <2>1, FrameDispatchInv
<1>4. CASE Boot(i)
  BY <1>4, FrameDispatchInv DEF Boot, DispatchFrame, Dispatched, Works, Holds
<1>5. CASE OrphanSweep(i)
  <2>1. PICK stale \in StaleSets :
          status' = [r \in Runs |-> IF r \in stale THEN "failed" ELSE status[r]]
    BY <1>5 DEF OrphanSweep
  <2>2. \A r \in stale : status[r] \in Open
    BY DEF StaleSets, Active
  <2>3. DispatchFrame
    BY <1>5, <2>1, <2>2 DEF OrphanSweep, DispatchFrame, Dispatched, Works, Holds, Open
  <2>4. QED BY <2>3, FrameDispatchInv
<1>6. ASSUME NEW r \in Runs, OfflineSweep(i, r)
      PROVE  DispatchInv'
  BY <1>6, FrameDispatchInv DEF OfflineSweep, DispatchFrame, Dispatched, Works, Holds, TypeOK
<1>7. QED BY <1>1, <1>2, <1>3, <1>4, <1>5, <1>6 DEF InstanceStep

LEMMA NextDispatchInv ==
  ASSUME TypeOK, DispatchInv, [Next]_vars
  PROVE  DispatchInv'
<1>1. ASSUME NEW r \in Runs, BecomeDue(r)
      PROVE  DispatchInv'
  <2>1. /\ UNCHANGED <<status, queued, dueList, tpc, trun, wpc, wrun>>
        /\ runAt[r] = "future" /\ runAt' = [runAt EXCEPT ![r] = "due"]
    BY <1>1 DEF BecomeDue, rowVars, queueVars, procVars, callerVars, workerVars
  <2>2. \A q \in Runs : runAt'[q] # runAt[q] => runAt[q] = "future" /\ runAt'[q] = "due"
    BY <2>1 DEF TypeOK
  <2>3. HolderInv'
    BY <2>1, <2>2 DEF DispatchInv, HolderInv, Holds, TypeOK
  <2>4. ClockInv'
    BY <2>1, <2>2 DEF DispatchInv, ClockInv, TypeOK
  <2>5. HandedInv'
    BY <2>1, <2>2 DEF DispatchInv, HandedInv, Dispatched, Works
  <2>6. QED BY <2>3, <2>4, <2>5 DEF DispatchInv
<1>2. CASE UNCHANGED vars
  BY <1>2, FrameDispatchInv DEF vars, DispatchFrame, Dispatched, Works, Holds, rowVars,
              queueVars, procVars, callerVars, workerVars
<1>3. QED
  BY <1>1, <1>2, CallerDispatchInv, WorkerDispatchFrame, CancelDispatchFrame,
     FrameDispatchInv, InstanceDispatchInv DEF Next

LEMMA DispatchInvariant == Spec => []DispatchInv
<1>1. Init => DispatchInv
  BY DEF Init, DispatchInv, HolderInv, ClockInv, HandedInv, Holds, Dispatched, Works
<1>2. QED BY <1>1, NextDispatchInv, TypeCorrect, PTL DEF Spec

-----------------------------------------------------------------------------
(* The order of the events.  "queued" is published by the caller that       *)
(* inserted the row, the others by the one worker that claimed it, and each *)
(* place in the code where one is published is passed once.                 *)

Seen(r) == {events[r][n] : n \in DOMAIN events[r]}

EventOrderOf(s, immediate) ==
    \A m, n \in DOMAIN s :
        m < n => /\ s[m] # s[n]
                 /\ s[m] \in Terminal => s[n] = "queued"
                 /\ immediate => s[n] # "queued"

EventInv ==
    /\ \A r \in Runs : status[r] = "none" => events[r] = <<>>
    /\ \A r \in Runs : claims[r] = 0 => Seen(r) \subseteq {"queued"}
    /\ \A w \in Workers : wpc[w] = "claimed" => Seen(wrun[w]) \subseteq {"queued"}
    /\ \A w \in Workers :
         PastClaim(w) /\ wpc[w] # "leave" => Seen(wrun[w]) \cap Terminal = {}
    /\ \A c \in Callers : tpc[c] = "created" =>
         /\ "queued" \notin Seen(trun[c])
         /\ runAt[trun[c]] = "none" => events[trun[c]] = <<>>
    /\ EventOrder

\* An event that is new, and allowed after those before it, keeps the order.
LEMMA AppendKeepsOrder ==
  ASSUME NEW s \in Seq(Actions), NEW a \in Actions, NEW immediate \in BOOLEAN,
         EventOrderOf(s, immediate),
         \A n \in DOMAIN s : /\ s[n] # a
                             /\ s[n] \in Terminal => a = "queued"
                             /\ immediate => a # "queued"
  PROVE  EventOrderOf(Append(s, a), immediate)
<1> DEFINE t == Append(s, a)
<1>1. DOMAIN t = 1 .. Len(s) + 1 /\ DOMAIN s = 1 .. Len(s) /\ Len(s) \in Nat
  OBVIOUS
<1>2. t[Len(s) + 1] = a /\ \A n \in 1 .. Len(s) : t[n] = s[n]
  OBVIOUS
<1> HIDE DEF t
<1>3. EventOrderOf(t, immediate)
  BY <1>1, <1>2 DEF EventOrderOf
<1>4. QED BY <1>3 DEF t

LEMMA AppendSeen ==
  ASSUME NEW s \in Seq(Actions), NEW a \in Actions
  PROVE  {Append(s, a)[n] : n \in DOMAIN Append(s, a)} = {s[n] : n \in DOMAIN s} \cup {a}
<1> DEFINE t == Append(s, a)
<1>1. DOMAIN t = 1 .. Len(s) + 1 /\ DOMAIN s = 1 .. Len(s) /\ Len(s) \in Nat
  OBVIOUS
<1>2. t[Len(s) + 1] = a /\ \A n \in 1 .. Len(s) : t[n] = s[n]
  OBVIOUS
<1> HIDE DEF t
<1>3. {t[n] : n \in DOMAIN t} = {s[n] : n \in DOMAIN s} \cup {a}
  BY <1>1, <1>2
<1>4. QED BY <1>3 DEF t

LEMMA PublishSeen ==
  ASSUME TypeOK, NEW r \in Runs, NEW a \in Actions, Publish(r, a)
  PROVE  /\ \A q \in Runs : q # r => events'[q] = events[q] /\ Seen(q)' = Seen(q)
         /\ Seen(r)' = Seen(r) \cup {a}
<1>1. /\ \A q \in Runs : q # r => events'[q] = events[q]
      /\ events'[r] = Append(events[r], a) /\ events[r] \in Seq(Actions)
  BY DEF Publish, TypeOK
<1>2. QED
  BY <1>1, AppendSeen DEF Seen

LEMMA PublishOrder ==
  ASSUME TypeOK, EventOrder, NEW r \in Runs, NEW a \in Actions, Publish(r, a),
         UNCHANGED runAt,
         a \notin Seen(r),
         Seen(r) \cap Terminal # {} => a = "queued",
         Seen(r) # {} /\ runAt[r] = "none" => a # "queued"
  PROVE  EventOrder'
<1>1. /\ \A q \in Runs : q # r => events'[q] = events[q]
      /\ events'[r] = Append(events[r], a) /\ events[r] \in Seq(Actions)
  BY DEF Publish, TypeOK
<1>2. \A q \in Runs : EventOrderOf(events[q], runAt[q] = "none")
  BY DEF EventOrder, EventOrderOf
<1>3. \A n \in DOMAIN events[r] : /\ events[r][n] # a
                                  /\ events[r][n] \in Terminal => a = "queued"
                                  /\ runAt[r] = "none" => a # "queued"
  BY DEF Seen
<1>4. EventOrderOf(Append(events[r], a), runAt[r] = "none")
  BY <1>1, <1>2, <1>3, AppendKeepsOrder
<1>5. \A q \in Runs : EventOrderOf(events'[q], runAt'[q] = "none")
  BY <1>1, <1>2, <1>4
<1>6. QED BY <1>5 DEF EventOrder, EventOrderOf

\* A step that publishes nothing: no caller inserts, no worker claims.
EventFrame ==
    /\ UNCHANGED <<events, claims>>
    /\ \A r \in Runs : status'[r] = "none" => status[r] = "none"
    /\ \A r \in Runs : (runAt'[r] = "none") <=> (runAt[r] = "none")
    /\ \A c \in Callers : tpc'[c] = "created" => tpc[c] = "created" /\ trun'[c] = trun[c]
    /\ \A w \in Workers : PastClaim(w)' =>
         /\ PastClaim(w) /\ wrun'[w] = wrun[w]
         /\ wpc'[w] = "claimed" => wpc[w] = "claimed"
         /\ wpc[w] = "leave" => wpc'[w] = "leave"

LEMMA FrameEventInv ==
  ASSUME TypeOK, EventInv, EventFrame
  PROVE  EventInv'
<1>1. \A r : Seen(r)' = Seen(r)
  BY DEF Seen, EventFrame
<1>2. \A c \in Callers : tpc[c] = "created" => trun[c] \in Runs
  BY DEF TypeOK
<1>3. EventOrder'
  BY DEF EventInv, EventOrder, EventFrame
<1>4. (/\ \A r \in Runs : status[r] = "none" => events[r] = <<>>
       /\ \A r \in Runs : claims[r] = 0 => Seen(r) \subseteq {"queued"})'
  BY <1>1 DEF EventInv, EventFrame
<1>5. (\A w \in Workers : wpc[w] = "claimed" => Seen(wrun[w]) \subseteq {"queued"})'
  BY <1>1 DEF EventInv, EventFrame, PastClaim
<1>6. (\A w \in Workers :
         PastClaim(w) /\ wpc[w] # "leave" => Seen(wrun[w]) \cap Terminal = {})'
  BY <1>1 DEF EventInv, EventFrame
<1>7. (\A c \in Callers : tpc[c] = "created" =>
         /\ "queued" \notin Seen(trun[c])
         /\ runAt[trun[c]] = "none" => events[trun[c]] = <<>>)'
  BY <1>1, <1>2 DEF EventInv, EventFrame
<1>8. QED BY <1>3, <1>4, <1>5, <1>6, <1>7 DEF EventInv

LEMMA CallerEventInv ==
  ASSUME TypeOK, ClaimInv, DispatchInv, EventInv,
         NEW c \in Callers, CheckActive(c) \/ CallerStep(c)
  PROVE  EventInv'
<1> USE DEF rowVars, queueVars, procVars, callerVars, workerVars, cancelVars, obsVars
<1>1. CASE CheckActive(c) \/ Decline(c)
  <2>1. EventFrame
    BY <1>1 DEF CheckActive, Decline, EventFrame, PastClaim, TypeOK
  <2>2. QED BY <2>1, FrameEventInv
<1>2. CASE EmitQueued(c)
  <2>0. PICK r \in Runs : r = trun[c]
    BY <1>2 DEF EmitQueued, TypeOK
  <2>1. /\ tpc[c] = "created" /\ trun[c] = r
        /\ UNCHANGED <<rowVars, workerVars, claims>>
        /\ Publish(r, "queued")
        /\ tpc'[c] # "created"
        /\ \A d \in Callers \ {c} : tpc'[d] = tpc[d] /\ trun'[d] = trun[d]
    BY <1>2, <2>0 DEF EmitQueued, TypeOK
  <2>2. /\ \A q \in Runs : q # r => events'[q] = events[q] /\ Seen(q)' = Seen(q)
        /\ Seen(r)' = Seen(r) \cup {"queued"}
    BY <2>1, PublishSeen DEF Actions
  <2>3. EventOrder'
    <3>1. /\ "queued" \notin Seen(r)
          /\ runAt[r] = "none" => events[r] = <<>>
      BY <2>1 DEF EventInv
    <3>2. runAt[r] = "none" => Seen(r) = {}
      BY <3>1 DEF Seen
    <3>3. QED BY <2>1, <3>1, <3>2, PublishOrder DEF EventInv, Actions
  <2>4. \A d \in Callers : tpc'[d] = "created" =>
          tpc[d] = "created" /\ trun'[d] = trun[d] /\ trun[d] \in Runs \ {r}
    BY <2>1 DEF DispatchInv, HolderInv, Holds, TypeOK
  <2>5. status[r] # "none"
    BY <2>1 DEF DispatchInv, HolderInv, Holds
  <2>6. \A w \in Workers : PastClaim(w)' => PastClaim(w) /\ wrun[w] \in Runs
    BY <2>1 DEF PastClaim, TypeOK
  <2>7. (/\ \A q \in Runs : status[q] = "none" => events[q] = <<>>
         /\ \A q \in Runs : claims[q] = 0 => Seen(q) \subseteq {"queued"})'
    BY <2>1, <2>2, <2>5 DEF EventInv
  <2>8. (\A w \in Workers : wpc[w] = "claimed" => Seen(wrun[w]) \subseteq {"queued"})'
    <3>1. \A w \in Workers : wpc[w] = "claimed" =>
            wrun[w] \in Runs /\ Seen(wrun[w]) \subseteq {"queued"}
      BY DEF EventInv, TypeOK
    <3>2. \A q \in Runs : Seen(q) \subseteq {"queued"} => Seen(q)' \subseteq {"queued"}
      BY <2>2
    <3>3. UNCHANGED <<wpc, wrun>>
      BY <2>1
    <3>4. QED BY <3>1, <3>2, <3>3
  <2>9. (\A w \in Workers :
           PastClaim(w) /\ wpc[w] # "leave" => Seen(wrun[w]) \cap Terminal = {})'
    BY <2>1, <2>2, <2>6 DEF EventInv, Terminal
  <2>10. (\A d \in Callers : tpc[d] = "created" =>
            /\ "queued" \notin Seen(trun[d])
            /\ runAt[trun[d]] = "none" => events[trun[d]] = <<>>)'
    BY <2>1, <2>2, <2>4 DEF EventInv
  <2>11. QED BY <2>3, <2>7, <2>8, <2>9, <2>10 DEF EventInv
<1>3. CASE DispatchNow(c) \/ EnqueueError(c)
  <2>1. /\ UNCHANGED <<rowVars, events, claims>>
        /\ \A d \in Callers : tpc'[d] = "created" => tpc[d] = "created" /\ trun'[d] = trun[d]
    BY <1>3 DEF DispatchNow, EnqueueError, TypeOK
  <2>2. \A w \in Workers : PastClaim(w)' => wpc'[w] = wpc[w] /\ wrun'[w] = wrun[w]
    BY <1>3, CallerRowStep DEF CallerStep, PastClaim
  <2>3. EventFrame
    BY <2>1, <2>2 DEF EventFrame, PastClaim
  <2>4. QED BY <2>3, FrameEventInv
<1>5. CASE Reject(c)
  <2>1. EventFrame
    BY <1>5 DEF Reject, Finish, EventFrame, PastClaim, Open, TypeOK
  <2>2. QED BY <2>1, FrameEventInv
<1>6. ASSUME NEW r \in Runs, NEW kind \in {"now", "delay", "invalid"}, Create(c, r, kind)
      PROVE  EventInv'
  <2>1. /\ status[r] = "none" /\ events[r] = <<>> /\ claims[r] = 0
        /\ UNCHANGED <<workerVars, events, claims>>
        /\ status' = [status EXCEPT ![r] = "pending"]
        /\ runAt[r] = "none" /\ \A q \in Runs \ {r} : runAt'[q] = runAt[q]
    BY <1>6 DEF Create, EventInv, ClaimInv, DispatchInv, ClockInv, TypeOK
  <2>2. \A q : Seen(q)' = Seen(q)
    BY <2>1 DEF Seen
  <2>3. EventOrder'
    BY <2>1 DEF EventInv, EventOrder
  <2>4. \A d \in Callers : tpc'[d] = "created" =>
          trun'[d] = r \/ (tpc[d] = "created" /\ trun'[d] = trun[d] /\ trun[d] \in Runs \ {r})
    BY <1>6, <2>1 DEF Create, TypeOK, DispatchInv, HolderInv, Holds
  <2>5. (\A d \in Callers : tpc[d] = "created" =>
            /\ "queued" \notin Seen(trun[d])
            /\ runAt[trun[d]] = "none" => events[trun[d]] = <<>>)'
    <3>1. Seen(r) = {}
      BY <2>1 DEF Seen
    <3>2. QED BY <2>1, <2>2, <2>4, <3>1 DEF EventInv
  <2>6. QED BY <2>1, <2>2, <2>3, <2>5 DEF EventInv, PastClaim, TypeOK
<1>7. QED BY <1>1, <1>2, <1>3, <1>5, <1>6 DEF CallerStep

LEMMA WorkerEventInv ==
  ASSUME TypeOK, ClaimInv, DispatchInv, EventInv, NEW w \in Workers,
         WorkerStep(w) \/ ExecuteStep(w) \/ \E r \in Runs : TakeTask(w, r)
  PROVE  EventInv'
<1> USE DEF rowVars, queueVars, procVars, callerVars, workerVars, cancelVars, obsVars
<1>1. CASE Claim(w)
  <2>1. PICK r \in Runs : r = wrun[w]
    BY <1>1 DEF Claim, TypeOK
  <2>0. claims[r] = 0
    BY <1>1, <2>1 DEF Claim, ClaimInv
  <2>2. /\ wpc[w] = "start" /\ status[r] = "pending" /\ claims[r] = 0
        /\ status' = [status EXCEPT ![r] = "running"]
        /\ claims' = [claims EXCEPT ![r] = 1]
        /\ wpc' = [wpc EXCEPT ![w] = "claimed"]
        /\ UNCHANGED <<runAt, callerVars, wrun, events>>
    BY <1>1, <2>0, <2>1 DEF Claim, TypeOK
  <2>3. \A q : Seen(q)' = Seen(q)
    BY <2>2 DEF Seen
  <2>4. Seen(r) \subseteq {"queued"} /\ Seen(r) \cap Terminal = {}
    BY <2>2 DEF EventInv, Terminal
  <2>5. /\ \A q \in Runs : status'[q] = "none" => status[q] = "none"
        /\ \A q \in Runs : claims'[q] = 0 => claims[q] = 0
    BY <2>2 DEF TypeOK
  <2>6. \A v \in Workers \ {w} : wpc'[v] = wpc[v]
    BY <2>2 DEF TypeOK
  <2>7. EventOrder'
    BY <2>2 DEF EventInv, EventOrder
  <2>8. (\A v \in Workers : wpc[v] = "claimed" => Seen(wrun[v]) \subseteq {"queued"})'
    BY <2>1, <2>2, <2>3, <2>4, <2>6 DEF EventInv
  <2>9. (\A v \in Workers :
           PastClaim(v) /\ wpc[v] # "leave" => Seen(wrun[v]) \cap Terminal = {})'
    BY <2>1, <2>2, <2>3, <2>4, <2>6 DEF EventInv, PastClaim
  <2>10. QED BY <2>2, <2>3, <2>5, <2>7, <2>8, <2>9 DEF EventInv
<1>2. ASSUME PastClaim(w), NEW a \in Actions \ {"queued"}, NEW x,
             Publish(wrun[w], a), wpc' = [wpc EXCEPT ![w] = x],
             x \in {"started", "leave"},
             a \in Terminal => wpc[w] = "emit" /\ x = "leave",
             a \notin Terminal => wpc[w] = "claimed",
             UNCHANGED <<rowVars, callerVars, wrun, claims>>
      PROVE  EventInv'
  <2>1. PICK r \in Runs : r = wrun[w]
    BY <1>2 DEF PastClaim, TypeOK
  <2>2. /\ \A q \in Runs : q # r => events'[q] = events[q] /\ Seen(q)' = Seen(q)
        /\ Seen(r)' = Seen(r) \cup {a}
    BY <1>2, <2>1, PublishSeen
  <2>3. /\ a \notin Seen(r)
        /\ Seen(r) \cap Terminal = {}
    BY <1>2, <2>1 DEF EventInv, Terminal, PastClaim
  <2>4. EventOrder'
    BY <1>2, <2>1, <2>3, PublishOrder DEF EventInv
  <2>5. claims[r] = 1 /\ status[r] # "none"
    BY <1>2, <2>1 DEF ClaimInv, TypeOK
  <2>6. (/\ \A q \in Runs : status[q] = "none" => events[q] = <<>>
         /\ \A q \in Runs : claims[q] = 0 => Seen(q) \subseteq {"queued"})'
    BY <1>2, <2>2, <2>5 DEF EventInv
  <2>7. \A v \in Workers : PastClaim(v)' =>
          v = w \/ (PastClaim(v) /\ wpc'[v] = wpc[v] /\ wrun[v] \in Runs \ {r})
    BY <1>2, <2>1 DEF PastClaim, TypeOK, ClaimInv, ExecutesOnce
  <2>8. wpc'[w] = x
    BY <1>2 DEF TypeOK
  <2>9. (\A v \in Workers : wpc[v] = "claimed" => Seen(wrun[v]) \subseteq {"queued"})'
    BY <1>2, <2>2, <2>7, <2>8 DEF EventInv, PastClaim
  <2>10. (\A v \in Workers :
           PastClaim(v) /\ wpc[v] # "leave" => Seen(wrun[v]) \cap Terminal = {})'
    BY <1>2, <2>1, <2>2, <2>3, <2>7, <2>8 DEF EventInv
  <2>11. \A c \in Callers : tpc[c] = "created" =>
           /\ trun[c] \in Runs
           /\ runAt[trun[c]] = "none" => trun[c] # r
    <3>1. Dispatched(r)
      BY <1>2, <2>1 DEF Dispatched, Works, PastClaim
    <3>2. runAt[r] = "none" => \A c \in Callers : tpc[c] = "created" => trun[c] # r
      BY <3>1 DEF DispatchInv, HandedInv
    <3>3. QED BY <3>2 DEF TypeOK
  <2>12. (\A c \in Callers : tpc[c] = "created" =>
            /\ "queued" \notin Seen(trun[c])
            /\ runAt[trun[c]] = "none" => events[trun[c]] = <<>>)'
    BY <1>2, <2>2, <2>11 DEF EventInv
  <2>13. QED BY <2>4, <2>6, <2>9, <2>10, <2>12 DEF EventInv
<1>3. CASE EmitStarted(w)
  BY <1>2, <1>3 DEF EmitStarted, Actions, Terminal, PastClaim
<1>4. CASE EmitResult(w)
  BY <1>2, <1>4 DEF EmitResult, Actions, Terminal, PastClaim, TypeOK
<1>5. CASE /\ ~Claim(w) /\ ~EmitStarted(w) /\ ~EmitResult(w)
  <2>1. DispatchFrame
    BY WorkerDispatchFrame
  <2>2. /\ UNCHANGED <<events, claims>>
        /\ PastClaim(w)' => wpc'[w] # "claimed" /\ wpc[w] # "leave"
    BY <1>5 DEF WorkerStep, ExecuteStep, TakeTask, SkipClaimed, Register,
         LogFails, ExecuteHere, SelectRunner, OpenSession, Recover, FinishRun,
         Leave, Timeout, ExecuteOk, ExecuteErr, Panic, Return, PastClaim, TypeOK, Executing
  <2>3. EventFrame
    BY <1>5, <2>1, <2>2, WorkerRowStep DEF DispatchFrame, EventFrame, PastClaim, Holds
  <2>4. QED BY <2>3, FrameEventInv
<1>6. QED BY <1>1, <1>3, <1>4, <1>5

LEMMA InstanceEventFrame ==
  ASSUME TypeOK, NEW i \in Instances, InstanceStep(i)
  PROVE  EventFrame
<1> USE DEF rowVars, queueVars, procVars, callerVars, workerVars, cancelVars, obsVars
<1>1. \A w \in Workers : PastClaim(w)' => wpc'[w] = wpc[w] /\ wrun'[w] = wrun[w]
  BY InstanceRowStep
<1>2. CASE Crash(i)
  BY <1>1, <1>2 DEF Crash, EventFrame, PastClaim
<1>3. CASE ReadDue(i) \/ Boot(i) \/ \E r \in Runs : DispatchDue(i, r)
  BY <1>1, <1>3 DEF ReadDue, Boot, DispatchDue, EventFrame, PastClaim
<1>4. CASE OrphanSweep(i) \/ \E r \in Runs : OfflineSweep(i, r)
  BY <1>1, <1>4 DEF OrphanSweep, OfflineSweep, EventFrame, PastClaim, TypeOK
<1>5. QED BY <1>2, <1>3, <1>4 DEF InstanceStep

LEMMA NextEventInv ==
  ASSUME TypeOK, ClaimInv, DispatchInv, EventInv, [Next]_vars
  PROVE  EventInv'
<1> USE DEF rowVars, queueVars, procVars, callerVars, workerVars, cancelVars, obsVars
<1>1. ASSUME NEW k \in Cancellers, CancelStep(k)
      PROVE  EventFrame
  <2>1. UNCHANGED <<events, claims, runAt, callerVars>>
    BY <1>1 DEF CancelStep, CancelRead, CancelUpdate, CancelHub, CancelLocal
  <2>2. QED
    BY <1>1, <2>1, CancelRowStep, CancelDispatchFrame DEF EventFrame, DispatchFrame, PastClaim
<1>2. ASSUME NEW r \in Runs, BecomeDue(r)
      PROVE  EventFrame
  BY <1>2 DEF BecomeDue, EventFrame, PastClaim, TypeOK
<1>3. CASE UNCHANGED vars
  BY <1>3, FrameEventInv DEF vars, EventFrame, PastClaim
<1>4. QED
  BY <1>1, <1>2, <1>3, CallerEventInv, WorkerEventInv, InstanceEventFrame, FrameEventInv
     DEF Next, vars

\* Whatever the threads of a run do and whenever they crash, its subscribers
\* see its events in the order of its life, and none twice.
THEOREM EventsInOrder == Spec => []EventOrder
<1>1. Init => EventInv
  BY DEF Init, EventInv, Seen, PastClaim, EventOrder
<1>2. EventInv => EventOrder
  BY DEF EventInv
<1>3. QED
  BY <1>1, <1>2, NextEventInv, TypeCorrect, ClaimInvariant, DispatchInvariant, PTL DEF Spec

-----------------------------------------------------------------------------
(* An open run has an owner.  A pending row without run_at waits for the    *)
(* caller that holds it, for the queue or for a worker that has not claimed *)
(* it; a running one has the worker that claimed it, until that worker      *)
(* closed it.  What the queue holds back (a TaskID already taken) has its   *)
(* worker, as long as no crash archived it.                                 *)

Excused == IF Redis THEN crashes > 0 ELSE \E i \in Instances : inst[i] # "up"
Waiting(r) ==
    \/ \E c \in Callers : Holds(c) /\ trun[c] = r
    \/ r \in queued
    \/ \E w \in Workers : wpc[w] = "start" /\ wrun[w] = r
Executes(w) == wpc[w] \notin {"idle", "start", "emit", "leave"}
Executed(r) == \E w \in Workers : Executes(w) /\ wrun[w] = r

OwnerInv ==
    /\ \A r \in Runs : status[r] = "pending" /\ runAt[r] = "none" => Waiting(r) \/ Excused
    /\ \A r \in Runs : status[r] = "running" => Executed(r) \/ Excused
    /\ ~Excused /\ Redis => \A r \in held : \E w \in Workers : Works(w) /\ wrun[w] = r

\* A step after which every row that still waits, or runs, has its owner.
OwnerFrame ==
    /\ Excused => Excused'
    /\ \A r \in Runs : status'[r] = "pending" /\ runAt'[r] = "none" =>
         status[r] = "pending" /\ runAt[r] = "none" /\ (Waiting(r) => Waiting(r)')
    /\ \A r \in Runs : status'[r] = "running" =>
         status[r] = "running" /\ (Executed(r) => Executed(r)')
    /\ \A r \in held' : \/ \E w \in Workers : Works(w)' /\ wrun'[w] = r
                        \/ /\ r \in held
                           /\ \A w \in Workers : Works(w) /\ wrun[w] = r =>
                                Works(w)' /\ wrun'[w] = r

LEMMA FrameOwnerInv ==
  ASSUME TypeOK, OwnerInv, OwnerFrame
  PROVE  OwnerInv'
<1>1. (\A r \in Runs : status[r] = "pending" /\ runAt[r] = "none" => Waiting(r) \/ Excused)'
  BY DEF OwnerInv, OwnerFrame
<1>2. (\A r \in Runs : status[r] = "running" => Executed(r) \/ Excused)'
  BY DEF OwnerInv, OwnerFrame
<1>3. (~Excused /\ Redis => \A r \in held : \E w \in Workers : Works(w) /\ wrun[w] = r)'
  BY DEF OwnerInv, OwnerFrame
<1>4. QED BY <1>1, <1>2, <1>3 DEF OwnerInv

LEMMA CallerOwnerInv ==
  ASSUME TypeOK, ClaimInv, DispatchInv, OwnerInv,
         NEW c \in Callers, CheckActive(c) \/ CallerStep(c)
  PROVE  OwnerInv'
<1> USE DEF rowVars, queueVars, procVars, callerVars, workerVars, cancelVars, obsVars
<1>1. CASE CheckActive(c) \/ Decline(c)
  <2>1. OwnerFrame
    BY <1>1 DEF CheckActive, Decline, OwnerFrame, Excused, Waiting, Holds, Executed, Executes,
                Works, TypeOK
  <2>2. QED BY <2>1, FrameOwnerInv
<1>2. CASE EmitQueued(c)
  <2>1. /\ tpc[c] = "created" /\ trun[c] \in Runs
        /\ UNCHANGED <<rowVars, queueVars, inst, workerVars, crashes>>
        /\ \A d \in Callers \ {c} : tpc'[d] = tpc[d] /\ trun'[d] = trun[d]
        /\ runAt[trun[c]] = "none" => tpc'[c] = "dispatch" /\ trun'[c] = trun[c]
    BY <1>2 DEF EmitQueued, TypeOK
  <2>2. \A r \in Runs : runAt[r] = "none" /\ Waiting(r) => Waiting(r)'
    BY <2>1 DEF Waiting, Holds
  <2>3. OwnerFrame
    BY <2>1, <2>2 DEF OwnerFrame, Excused, Executed, Executes, Works
  <2>4. QED BY <2>3, FrameOwnerInv
<1>3. CASE DispatchNow(c)
  <2>1. PICK r \in Runs : r = trun[c]
    BY <1>3 DEF DispatchNow, TypeOK
  <2>2. /\ UNCHANGED <<rowVars, inst, crashes>>
        /\ \A d \in Callers \ {c} : tpc'[d] = tpc[d] /\ trun'[d] = trun[d]
    BY <1>3 DEF DispatchNow, TypeOK
  <2>3. CASE Redis /\ Enqueue(r)
    <3>1. /\ queued' = IF r \in held THEN queued ELSE queued \cup {r}
          /\ UNCHANGED <<held, workerVars>>
      BY <2>3 DEF Enqueue
    <3>2. \A q \in Runs : q # r /\ Waiting(q) => Waiting(q)'
      BY <2>1, <2>2, <3>1 DEF Waiting, Holds
    <3>3. status[r] = "pending" => Waiting(r)' \/ Excused
      <4> SUFFICES ASSUME status[r] = "pending", ~Excused, r \in held
                   PROVE  Waiting(r)'
        BY <3>1 DEF Waiting
      <4>1. PICK w \in Workers : Works(w) /\ wrun[w] = r
        BY <2>3 DEF OwnerInv
      <4>2. wpc[w] = "start"
        BY <4>1 DEF ClaimInv, PastClaim, Works
      <4>3. QED BY <3>1, <4>1, <4>2 DEF Waiting
    <3>4. \A q \in Runs : Executed(q)' <=> Executed(q)
      BY <3>1 DEF Executed, Executes
    <3>5. Excused' <=> Excused
      BY <2>2 DEF Excused
    <3>6. (\A q \in Runs : status[q] = "pending" /\ runAt[q] = "none"
                             => Waiting(q) \/ Excused)'
      BY <2>2, <3>2, <3>3, <3>5 DEF OwnerInv
    <3>7. QED BY <2>2, <3>1, <3>4, <3>5, <3>6 DEF OwnerInv, Works
  <2>4. CASE ~Redis /\ Spawn(Home[c], r)
    <3>1. PICK w \in Workers : /\ wpc[w] = "idle"
                               /\ wpc'  = [wpc EXCEPT ![w] = "start"]
                               /\ wrun' = [wrun EXCEPT ![w] = r]
                               /\ UNCHANGED <<wctx, wres, queueVars>>
      BY <2>4 DEF Spawn
    <3>2. /\ wpc'[w] = "start" /\ wrun'[w] = r
          /\ \A v \in Workers \ {w} : wpc'[v] = wpc[v] /\ wrun'[v] = wrun[v]
      BY <3>1 DEF TypeOK
    <3>3. \A q \in Runs : Waiting(q) => Waiting(q)'
      BY <2>1, <2>2, <3>1, <3>2 DEF Waiting, Holds
    <3>4. \A q \in Runs : Executed(q) => Executed(q)'
      BY <3>1, <3>2 DEF Executed, Executes
    <3>5. Excused' <=> Excused
      BY <2>2 DEF Excused
    <3>6. QED BY <2>2, <2>4, <3>3, <3>4, <3>5 DEF OwnerInv
  <2>5. QED BY <1>3, <2>1, <2>3, <2>4 DEF DispatchNow, Dispatch
<1>4. CASE EnqueueError(c)
  <2>1. /\ UNCHANGED <<rowVars, inst, held, workerVars, crashes, trun>>
        /\ queued \subseteq queued'
        /\ \A d \in Callers : Holds(d) => Holds(d)'
    BY <1>4 DEF EnqueueError, Enqueue, Holds, TypeOK
  <2>2. OwnerFrame
    BY <2>1 DEF OwnerFrame, Excused, Waiting, Executed, Executes, Works
  <2>3. QED BY <2>2, FrameOwnerInv
<1>5. CASE Reject(c)
  <2>1. PICK r \in Runs : r = trun[c]
    BY <1>5 DEF Reject, TypeOK
  <2>2. /\ UNCHANGED <<runAt, queueVars, inst, workerVars, crashes>>
        /\ \A d \in Callers \ {c} : tpc'[d] = tpc[d] /\ trun'[d] = trun[d]
        /\ \A q \in Runs : q # r => status'[q] = status[q]
        /\ status'[r] \notin Open
    BY <1>5, <2>1 DEF Reject, Finish, TypeOK, Open
  <2>3. \A q \in Runs : q # r /\ Waiting(q) => Waiting(q)'
    BY <2>1, <2>2 DEF Waiting, Holds
  <2>4. OwnerFrame
    BY <2>2, <2>3 DEF OwnerFrame, Excused, Executed, Executes, Works, Open
  <2>5. QED BY <2>4, FrameOwnerInv
<1>6. ASSUME NEW r \in Runs, NEW kind \in {"now", "delay", "invalid"}, Create(c, r, kind)
      PROVE  OwnerInv'
  <2>1. /\ UNCHANGED <<queueVars, inst, workerVars, crashes>>
        /\ \A d \in Callers \ {c} : tpc'[d] = tpc[d] /\ trun'[d] = trun[d]
        /\ ~Holds(c) /\ Holds(c)' /\ trun'[c] = r
        /\ \A q \in Runs : q # r => status'[q] = status[q] /\ runAt'[q] = runAt[q]
        /\ status'[r] = "pending"
    BY <1>6 DEF Create, TypeOK, Holds
  <2>2. Waiting(r)' /\ \A q \in Runs : Waiting(q) => Waiting(q)'
    BY <2>1 DEF Waiting, Holds
  <2>3. \A q \in Runs : Executed(q) <=> Executed(q)'
    BY <2>1 DEF Executed, Executes
  <2>4. Excused' <=> Excused
    BY <2>1 DEF Excused
  <2>5. QED BY <2>1, <2>2, <2>3, <2>4 DEF OwnerInv, Works
<1>7. QED BY <1>1, <1>2, <1>3, <1>4, <1>5, <1>6 DEF CallerStep

\* FinishPipelineRun leaves the row closed, and the other rows as they were.
LEMMA FinishShuts ==
  ASSUME TypeOK, NEW r \in Runs, NEW st \in Terminal, Finish(r, st)
  PROVE  status'[r] \notin Open /\ \A q \in Runs : q # r => status'[q] = status[q]
  BY DEF Finish, TypeOK, Terminal, Open

LEMMA WorkerOwnerInv ==
  ASSUME TypeOK, ClaimInv, DispatchInv, OwnerInv, NEW w \in Workers,
         WorkerStep(w) \/ ExecuteStep(w) \/ \E r \in Runs : TakeTask(w, r)
  PROVE  OwnerInv'
<1> USE DEF rowVars, queueVars, procVars, callerVars, workerVars, cancelVars, obsVars
<1>1. CASE Claim(w)
  <2>1. PICK r \in Runs : r = wrun[w]
    BY <1>1 DEF Claim, TypeOK
  <2>2. /\ UNCHANGED <<runAt, queueVars, inst, callerVars, wrun, crashes>>
        /\ wpc[w] = "start" /\ wpc'[w] = "claimed"
        /\ \A v \in Workers \ {w} : wpc'[v] = wpc[v]
        /\ \A q \in Runs : q # r => status'[q] = status[q]
        /\ status'[r] = "running"
    BY <1>1, <2>1 DEF Claim, TypeOK
  <2>3. \A q \in Runs : q # r /\ Waiting(q) => Waiting(q)'
    BY <2>1, <2>2 DEF Waiting, Holds
  <2>4. Executed(r)' /\ \A q \in Runs : Executed(q) => Executed(q)'
    BY <2>1, <2>2 DEF Executed, Executes
  <2>5. Excused' <=> Excused
    BY <2>2 DEF Excused
  <2>6. \A v \in Workers : Works(v)' <=> Works(v)
    BY <2>2 DEF Works
  <2>7. QED BY <2>2, <2>3, <2>4, <2>5, <2>6 DEF OwnerInv
<1>2. CASE \E r \in Runs : TakeTask(w, r)
  <2>1. PICK r \in Runs : TakeTask(w, r)
    BY <1>2
  <2>2. /\ UNCHANGED <<rowVars, inst, callerVars, crashes>>
        /\ wpc[w] = "idle" /\ wpc'[w] = "start" /\ wrun'[w] = r
        /\ \A v \in Workers \ {w} : wpc'[v] = wpc[v] /\ wrun'[v] = wrun[v]
        /\ queued' = queued \ {r} /\ held' = held \cup {r}
    BY <2>1 DEF TakeTask, TypeOK
  <2>3. \A q \in Runs : Waiting(q) => Waiting(q)'
    BY <2>2 DEF Waiting, Holds
  <2>4. \A q \in Runs : Executed(q) => Executed(q)'
    BY <2>2 DEF Executed, Executes
  <2>5. \A v \in Workers \ {w} : Works(v) => Works(v)' /\ wrun'[v] = wrun[v]
    BY <2>2 DEF Works
  <2>6. Works(w)' /\ ~Works(w)
    BY <2>2 DEF Works
  <2>7. OwnerFrame
    BY <2>2, <2>3, <2>4, <2>5, <2>6 DEF OwnerFrame, Excused
  <2>8. QED BY <2>7, FrameOwnerInv
<1>3. ASSUME UNCHANGED <<runAt, queued, inst, callerVars, wrun, crashes, held>>,
             Works(w), Works(w)', wpc[w] # "start", wpc'[w] # "start",
             \A v \in Workers \ {w} : wpc'[v] = wpc[v],
             \A q \in Runs : q # wrun[w] => status'[q] = status[q],
             \/ status' = status /\ (Executes(w) => Executes(w)')
             \/ status'[wrun[w]] \notin Open
      PROVE  OwnerInv'
  <2>1. \A q \in Runs : Waiting(q) => Waiting(q)'
    BY <1>3 DEF Waiting, Holds
  <2>2. \A q \in Runs : Executed(q) /\ status'[q] \in Open => Executed(q)'
    BY <1>3 DEF Executed, Executes
  <2>3. \A v \in Workers : Works(v)' <=> Works(v)
    BY <1>3 DEF Works
  <2>4. OwnerFrame
    BY <1>3, <2>1, <2>2, <2>3 DEF OwnerFrame, Excused, Open
  <2>5. QED BY <2>4, FrameOwnerInv
<1>4. ASSUME Works(w), wpc'[w] = "idle",
             UNCHANGED <<runAt, queued, inst, callerVars, crashes>>,
             \A v \in Workers \ {w} : wpc'[v] = wpc[v] /\ wrun'[v] = wrun[v],
             held' = held \ {wrun[w]},
             wpc[w] = "start" => status'[wrun[w]] # "pending",
             \A q \in Runs : q # wrun[w] => status'[q] = status[q],
             \/ status' = status /\ ~Executes(w)
             \/ status'[wrun[w]] \notin Open
      PROVE  OwnerInv'
  <2>1. \A q \in Runs : Waiting(q) /\ status'[q] = "pending" => Waiting(q)'
    BY <1>4 DEF Waiting, Holds
  <2>2. \A q \in Runs : Executed(q) /\ status'[q] \in Open => Executed(q)'
    BY <1>4 DEF Executed, Executes
  <2>3. \A q \in held' : \A v \in Workers : Works(v) /\ wrun[v] = q =>
          Works(v)' /\ wrun'[v] = q
    BY <1>4 DEF Works
  <2>4. OwnerFrame
    BY <1>4, <2>1, <2>2, <2>3 DEF OwnerFrame, Excused, Open
  <2>5. QED BY <2>4, FrameOwnerInv
<1>5. CASE \/ EmitStarted(w) \/ Register(w) \/ ExecuteHere(w) \/ SelectRunner(w)
           \/ OpenSession(w) \/ EmitResult(w) \/ ExecuteStep(w)
  <2>1. /\ UNCHANGED <<status, runAt, queued, inst, callerVars, wrun, crashes, held>>
        /\ Works(w) /\ Works(w)' /\ wpc[w] # "start" /\ wpc'[w] # "start"
        /\ \A v \in Workers \ {w} : wpc'[v] = wpc[v]
        /\ Executes(w) => Executes(w)'
    BY <1>5 DEF EmitStarted, Register, ExecuteHere, SelectRunner, OpenSession, EmitResult,
       ExecuteStep, Timeout, ExecuteOk, ExecuteErr, Panic, Executing, Works, Executes, TypeOK
  <2>2. QED BY <2>1, <1>3
<1>6. CASE LogFails(w) \/ FinishRun(w)
  <2>1. /\ UNCHANGED <<runAt, queued, inst, callerVars, wrun, crashes, held>>
        /\ Works(w) /\ Works(w)' /\ wpc[w] # "start" /\ wpc'[w] # "start"
        /\ \A v \in Workers \ {w} : wpc'[v] = wpc[v]
    BY <1>6 DEF LogFails, FinishRun, Works, TypeOK
  <2>2. /\ wrun[w] \in Runs /\ status'[wrun[w]] \notin Open
        /\ \A q \in Runs : q # wrun[w] => status'[q] = status[q]
    <3>1. CASE LogFails(w)
      BY <3>1, FinishShuts DEF LogFails, TypeOK, Terminal
    <3>2. CASE FinishRun(w)
      BY <3>2, FinishShuts DEF FinishRun, TypeOK
    <3>3. QED BY <1>6, <3>1, <3>2
  <2>3. QED BY <2>1, <2>2, <1>3
<1>7. CASE SkipClaimed(w) \/ Leave(w)
  <2>1. /\ Works(w) /\ wpc'[w] = "idle" /\ ~Executes(w)
        /\ UNCHANGED <<status, runAt, queued, inst, callerVars, crashes>>
        /\ \A v \in Workers \ {w} : wpc'[v] = wpc[v] /\ wrun'[v] = wrun[v]
        /\ held' = held \ {wrun[w]}
        /\ wpc[w] = "start" => status'[wrun[w]] # "pending"
    BY <1>7 DEF SkipClaimed, Leave, Return, Works, Executes, TypeOK
  <2>2. QED BY <2>1, <1>4
<1>8. CASE Recover(w)
  <2>1. /\ Works(w) /\ wpc'[w] = "idle" /\ wpc[w] # "start"
        /\ UNCHANGED <<runAt, queued, inst, callerVars, crashes>>
        /\ \A v \in Workers \ {w} : wpc'[v] = wpc[v] /\ wrun'[v] = wrun[v]
        /\ held' = held \ {wrun[w]}
    BY <1>8 DEF Recover, Return, Works, TypeOK
  <2>2. /\ wrun[w] \in Runs /\ status'[wrun[w]] \notin Open
        /\ \A q \in Runs : q # wrun[w] => status'[q] = status[q]
    BY <1>8, FinishShuts DEF Recover, TypeOK, Terminal
  <2>3. QED BY <2>1, <2>2, <1>4
<1>9. QED
  BY <1>1, <1>2, <1>5, <1>6, <1>7, <1>8 DEF WorkerStep

LEMMA CancelOwnerInv ==
  ASSUME TypeOK, OwnerInv, NEW k \in Cancellers, CancelStep(k)
  PROVE  OwnerInv'
<1> USE DEF rowVars, queueVars, procVars, callerVars, workerVars, cancelVars, obsVars
<1>1. UNCHANGED <<runAt, queueVars, inst, callerVars, wpc, wrun, crashes>>
  BY DEF CancelStep, CancelRead, CancelUpdate, CancelHub, CancelLocal
<1>2. \A r \in Runs : status'[r] \in Open => status'[r] = status[r]
  BY DEF CancelStep, CancelRead, CancelUpdate, CancelHub, CancelLocal, Finish, TypeOK, Open
<1>3. OwnerFrame
  BY <1>1, <1>2 DEF OwnerFrame, Excused, Waiting, Holds, Executed, Executes, Works, Open
<1>4. QED BY <1>3, FrameOwnerInv

LEMMA InstanceOwnerInv ==
  ASSUME TypeOK, DispatchInv, OwnerInv, NEW i \in Instances, InstanceStep(i)
  PROVE  OwnerInv'
<1> USE DEF rowVars, queueVars, procVars, callerVars, workerVars, cancelVars, obsVars
<1>1. CASE ReadDue(i)
  <2>1. OwnerFrame
    BY <1>1 DEF ReadDue, OwnerFrame, Excused, Waiting, Holds, Executed, Executes, Works
  <2>2. QED BY <2>1, FrameOwnerInv
<1>2. CASE \E r \in Runs : DispatchDue(i, r)
  <2>1. UNCHANGED <<rowVars, inst, callerVars, crashes, held>> /\ queued \subseteq queued'
    BY <1>2 DEF DispatchDue, Dispatch, Enqueue, Spawn
  <2>2. \A w \in Workers : Works(w) => wpc'[w] = wpc[w] /\ wrun'[w] = wrun[w]
    BY <1>2 DEF DispatchDue, Dispatch, Enqueue, Spawn, Works, TypeOK
  <2>3. OwnerFrame
    BY <2>1, <2>2 DEF OwnerFrame, Excused, Waiting, Holds, Executed, Executes, Works
  <2>4. QED BY <2>3, FrameOwnerInv
<1>3. CASE Crash(i)
  <2>1. Excused'
    BY <1>3 DEF Crash, Excused, TypeOK
  <2>2. QED BY <2>1 DEF OwnerInv
<1>4. CASE Boot(i)
  <2>1. Excused => Excused'
    BY <1>4 DEF Boot, Excused, TypeOK
  <2>2. OwnerFrame
    BY <1>4, <2>1 DEF Boot, OwnerFrame, Waiting, Holds, Executed, Executes, Works
  <2>3. QED BY <2>2, FrameOwnerInv
<1>5. CASE OrphanSweep(i)
  <2>1. PICK stale \in StaleSets :
          status' = [r \in Runs |-> IF r \in stale THEN "failed" ELSE status[r]]
    BY <1>5 DEF OrphanSweep
  <2>2. UNCHANGED <<runAt, queueVars, callerVars, workerVars, crashes>>
    BY <1>5 DEF OrphanSweep
  <2>3. CASE Redis
    <3>1. \A r \in Runs : status'[r] \in Open => status'[r] = status[r]
      BY <2>1 DEF Open
    <3>2. OwnerFrame
      BY <2>2, <2>3, <3>1 DEF OwnerFrame, Excused, Waiting, Holds, Executed, Executes, Works,
                              Open
    <3>3. QED BY <3>2, FrameOwnerInv
  <2>4. CASE ~Redis
    <3>1. stale = Active
      BY <2>4 DEF StaleSets
    <3>2. \A r \in Runs : status'[r] \in Open => status'[r] = status[r] /\ runAt[r] = "future"
      BY <2>1, <3>1 DEF Active, Open
    <3>3. \A r \in Runs : status'[r] # "running" /\ (status'[r] = "pending" => runAt'[r] # "none")
      BY <2>2, <3>2 DEF DispatchInv, ClockInv, Open
    <3>4. QED BY <2>4, <3>3 DEF OwnerInv
  <2>5. QED BY <2>3, <2>4
<1>6. CASE \E r \in Runs : OfflineSweep(i, r)
  <2>1. /\ \A r \in Runs : status'[r] \in Open => status'[r] = status[r]
        /\ UNCHANGED <<runAt, queueVars, inst, callerVars, workerVars, crashes>>
    BY <1>6 DEF OfflineSweep, TypeOK, Open
  <2>2. OwnerFrame
    BY <2>1 DEF OwnerFrame, Excused, Waiting, Holds, Executed, Executes, Works, Open
  <2>3. QED BY <2>2, FrameOwnerInv
<1>7. QED BY <1>1, <1>2, <1>3, <1>4, <1>5, <1>6 DEF InstanceStep

LEMMA NextOwnerInv ==
  ASSUME TypeOK, ClaimInv, DispatchInv, OwnerInv, [Next]_vars
  PROVE  OwnerInv'
<1> USE DEF rowVars, queueVars, procVars, callerVars, workerVars, cancelVars, obsVars
<1>1. ASSUME NEW r \in Runs, BecomeDue(r)
      PROVE  OwnerInv'
  <2>1. OwnerFrame
    BY <1>1 DEF BecomeDue, OwnerFrame, Excused, Waiting, Holds, Executed, Executes, Works, TypeOK
  <2>2. QED BY <2>1, FrameOwnerInv
<1>2. CASE UNCHANGED vars
  <2>1. OwnerFrame
    BY <1>2 DEF vars, OwnerFrame, Excused, Waiting, Holds, Executed, Executes, Works
  <2>2. QED BY <2>1, FrameOwnerInv
<1>3. QED
  BY <1>1, <1>2, CallerOwnerInv, WorkerOwnerInv, CancelOwnerInv, InstanceOwnerInv DEF Next

\* No order of dispatches, cancels, sweeps, faults and restarts leaves an open
\* run to nobody, but for the crashes that the redis mode does not survive.
THEOREM EveryOpenRunHasOwner == Spec => []OpenRunHasOwner
<1>1. Init => OwnerInv
  BY DEF Init, OwnerInv
<1>2. TypeOK /\ OwnerInv => OpenRunHasOwner
  <2> SUFFICES ASSUME TypeOK, OwnerInv, NEW r \in Runs, status[r] \in Open
               PROVE  Owned(r)
    BY DEF OpenRunHasOwner
  <2>1. Excused => Owned(r)
    BY DEF Excused, Owned
  <2>2. Waiting(r) \/ Executed(r) => Owned(r)
    BY DEF Waiting, Executed, Owned
  <2>3. status[r] = "pending" /\ runAt[r] # "none" => Owned(r)
    BY DEF Owned
  <2>4. QED BY <2>1, <2>2, <2>3 DEF OwnerInv, Open
<1>3. QED
  BY <1>1, <1>2, NextOwnerInv, TypeCorrect, ClaimInvariant, DispatchInvariant, PTL DEF Spec

-----------------------------------------------------------------------------
(* How far the runs may exceed maxActiveRuns.  Only finitely many rows were *)
(* inserted, so they can be counted; a caller between the check and its     *)
(* insert is counted before its row is.                                     *)

Inserted == {r \in Runs : status[r] # "none"}
Checked  == {c \in Callers : tpc[c] = "checked"}

OvershootInv == IsFiniteSet(Inserted) /\ Overshoot

LEMMA ImmediateFinite ==
  ASSUME IsFiniteSet(Inserted)
  PROVE  /\ IsFiniteSet(Active) /\ IsFiniteSet(Immediate) /\ IsFiniteSet(Checked)
         /\ Cardinality(Active) \in Nat /\ Cardinality(Immediate) \in Nat
         /\ Cardinality(Checked) \in Nat /\ Cardinality(Callers) \in Nat
         /\ Cardinality(Immediate) <= Cardinality(Active)
         /\ Cardinality(Checked) <= Cardinality(Callers)
<1>1. Active \subseteq Inserted
  BY DEF Active, Inserted, Open
<1>2. Immediate \subseteq Active /\ Checked \subseteq Callers
  BY DEF Immediate, Checked
<1>3. IsFiniteSet(Active)
  BY <1>1, FS_Subset
<1>4. QED BY <1>2, <1>3, FS_Subset, FS_CardinalityType

\* A step that inserts no row and finds no caller past the check.
LEMMA OvershootShrinks ==
  ASSUME OvershootInv,
         Inserted' = Inserted, Immediate' \subseteq Immediate, Checked' \subseteq Checked
  PROVE  OvershootInv'
<1>1. IsFiniteSet(Inserted)
  BY DEF OvershootInv
<1>2. /\ Cardinality(Immediate') \in Nat /\ Cardinality(Immediate') <= Cardinality(Immediate)
      /\ Cardinality(Checked') \in Nat /\ Cardinality(Checked') <= Cardinality(Checked)
  BY <1>1, ImmediateFinite, FS_Subset, FS_CardinalityType
<1>3. Cardinality(Immediate) + Cardinality(Checked) <= MaxActive - 1 + Cardinality(Callers)
  BY DEF OvershootInv, Overshoot, Checked
<1>4. Cardinality(Immediate') + Cardinality(Checked') <= MaxActive - 1 + Cardinality(Callers)
  BY <1>1, <1>2, <1>3, ImmediateFinite
<1>5. QED BY <1>1, <1>4 DEF OvershootInv, Overshoot, Checked

LEMMA CheckActiveOvershoot ==
  ASSUME TypeOK, OvershootInv, NEW c \in Callers, CheckActive(c)
  PROVE  OvershootInv'
<1>1. /\ Inserted' = Inserted /\ Immediate' = Immediate /\ IsFiniteSet(Inserted)
      /\ Cardinality(Active) < MaxActive
  BY DEF CheckActive, rowVars, Inserted, Immediate, Active, OvershootInv
<1>2. Checked' \subseteq Callers
  BY DEF Checked
<1>3. Cardinality(Checked') \in Nat /\ Cardinality(Checked') <= Cardinality(Callers)
  BY <1>2, FS_Subset, FS_CardinalityType
<1>4. Cardinality(Immediate') + Cardinality(Checked') <= MaxActive - 1 + Cardinality(Callers)
  BY <1>1, <1>3, ImmediateFinite
<1>5. QED BY <1>1, <1>4 DEF OvershootInv, Overshoot, Checked

LEMMA CreateOvershoot ==
  ASSUME TypeOK, OvershootInv, NEW c \in Callers, NEW r \in Runs,
         NEW kind \in {"now", "delay", "invalid"}, Create(c, r, kind)
  PROVE  OvershootInv'
<1>1. /\ Inserted' = Inserted \cup {r} /\ Checked' = Checked \ {c} /\ c \in Checked
      /\ Immediate' \subseteq Immediate \cup {r}
  BY DEF Create, Inserted, Checked, Immediate, Active, TypeOK, Open
<1>2. IsFiniteSet(Inserted)
  BY DEF OvershootInv
<1>3. IsFiniteSet(Inserted')
  BY <1>1, <1>2, FS_AddElement
<1>4. Cardinality(Checked') = Cardinality(Checked) - 1
  BY <1>1, <1>2, ImmediateFinite, FS_RemoveElement
<1>5. /\ IsFiniteSet(Immediate \cup {r})
      /\ Cardinality(Immediate \cup {r}) \in Nat
      /\ Cardinality(Immediate \cup {r}) <= Cardinality(Immediate) + 1
  <2>1. IsFiniteSet(Immediate) /\ Cardinality(Immediate) \in Nat
    BY <1>2, ImmediateFinite
  <2>2. /\ IsFiniteSet(Immediate \cup {r})
        /\ Cardinality(Immediate \cup {r}) \in
             {Cardinality(Immediate), Cardinality(Immediate) + 1}
    BY <2>1, FS_AddElement
  <2>3. QED BY <2>1, <2>2
<1>6. /\ Cardinality(Immediate') \in Nat
      /\ Cardinality(Immediate') <= Cardinality(Immediate \cup {r})
  BY <1>1, <1>5, FS_Subset, FS_CardinalityType
<1>7. Cardinality(Immediate) + Cardinality(Checked) <= MaxActive - 1 + Cardinality(Callers)
  BY DEF OvershootInv, Overshoot, Checked
<1>8. Cardinality(Immediate') + Cardinality(Checked') <= MaxActive - 1 + Cardinality(Callers)
  BY <1>2, <1>4, <1>5, <1>6, <1>7, ImmediateFinite
<1>9. QED BY <1>3, <1>8 DEF OvershootInv, Overshoot, Checked

LEMMA NextOvershoot ==
  ASSUME TypeOK, DispatchInv, OvershootInv, [Next]_vars
  PROVE  OvershootInv'
<1> USE DEF rowVars, queueVars, procVars, callerVars, workerVars, cancelVars, obsVars
<1> DEFINE Quiet == /\ \A r \in Runs : status'[r] = "none" <=> status[r] = "none"
                    /\ \A r \in Runs : status'[r] \in Open => status[r] \in Open
                    /\ \A r \in Runs : runAt'[r] = "none" <=> runAt[r] = "none"
                    /\ \A c \in Callers : tpc'[c] = "checked" => tpc[c] = "checked"
<1>1. ASSUME Quiet
      PROVE  OvershootInv'
  <2>1. /\ Inserted' = Inserted /\ Immediate' \subseteq Immediate
        /\ Checked' \subseteq Checked
    BY <1>1, Zenon DEF Inserted, Immediate, Active, Checked
  <2>2. QED BY <2>1, OvershootShrinks
<1>2. ASSUME NEW c \in Callers, CallerStep(c),
             ~\E r \in Runs, kind \in {"now", "delay", "invalid"} : Create(c, r, kind)
      PROVE  Quiet
  BY <1>2 DEF CallerStep, Decline, EmitQueued, DispatchNow, EnqueueError, Reject, Finish,
              TypeOK, Open
<1>3. ASSUME NEW w \in Workers,
             WorkerStep(w) \/ ExecuteStep(w) \/ \E r \in Runs : TakeTask(w, r)
      PROVE  Quiet
  <2>1. CASE Claim(w)
    BY <2>1 DEF Claim, TypeOK, Open
  <2>2. CASE ~Claim(w)
    <3>1. UNCHANGED <<runAt, tpc>>
      BY <1>3, WorkerDispatchFrame
         DEF WorkerStep, ExecuteStep, TakeTask, Claim, SkipClaimed, EmitStarted, Register,
             LogFails, ExecuteHere, SelectRunner, OpenSession, Recover, FinishRun,
             EmitResult, Leave, Timeout, ExecuteOk, ExecuteErr, Panic
    <3>2. RowClose \/ UNCHANGED status \/ RowCreate
      BY <1>3, <2>2, WorkerRowStep DEF RowStep
    <3>3. ~RowCreate
      BY <1>3, WorkerDispatchFrame DEF DispatchFrame, RowCreate, TypeOK
    <3>4. QED BY <3>1, <3>2, <3>3 DEF RowClose, Open, Terminal
  <2>3. QED BY <2>1, <2>2
<1>4. ASSUME NEW k \in Cancellers, CancelStep(k)
      PROVE  Quiet
  BY <1>4 DEF CancelStep, CancelRead, CancelUpdate, CancelHub, CancelLocal, Finish, TypeOK,
              Open
<1>5. ASSUME NEW i \in Instances, InstanceStep(i)
      PROVE  Quiet
  <2>1. CASE OrphanSweep(i)
    BY <2>1 DEF OrphanSweep, StaleSets, Active, Open
  <2>2. CASE ~OrphanSweep(i)
    BY <1>5, <2>2 DEF InstanceStep, ReadDue, DispatchDue, Crash, Boot, OfflineSweep, TypeOK,
                      Open
  <2>3. QED BY <2>1, <2>2
<1>6. ASSUME NEW r \in Runs, BecomeDue(r)
      PROVE  Quiet
  BY <1>6 DEF BecomeDue, TypeOK
<1>7. CASE UNCHANGED vars
  BY <1>1, <1>7 DEF vars
<1> HIDE DEF Quiet
<1>8. QED
  BY <1>1, <1>2, <1>3, <1>4, <1>5, <1>6, <1>7, CheckActiveOvershoot, CreateOvershoot DEF Next

\* However many callers pass the check of maxActiveRuns at the same time, the
\* runs that start at once exceed it by one for each further caller at most.
THEOREM ActiveRunsBounded == Spec => []Overshoot
<1>1. Init => OvershootInv
  <2> SUFFICES ASSUME Init
               PROVE  OvershootInv
    OBVIOUS
  <2>1. Inserted = {} /\ Immediate = {} /\ Checked = {}
    BY DEF Init, Inserted, Immediate, Active, Open, Checked
  <2>2. Cardinality({}) = 0 /\ IsFiniteSet({}) /\ Cardinality(Callers) \in Nat
    BY FS_EmptySet, FS_CardinalityType
  <2>3. QED BY <2>1, <2>2 DEF OvershootInv, Overshoot, Checked
<1>2. OvershootInv => Overshoot
  BY DEF OvershootInv
<1>3. QED
  BY <1>1, <1>2, NextOvershoot, TypeCorrect, DispatchInvariant, PTL DEF Spec
====
