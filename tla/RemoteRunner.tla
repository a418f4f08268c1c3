---------------------------- MODULE RemoteRunner ----------------------------
(***************************************************************************)
(* Remote execution of pipeline runs: RunRemote in the server, the hub's   *)
(* connections with their pumps, and the agent with its read loop, its     *)
(* execution slots and its jobs.                                           *)
(* Dispatch publishes on the runner's redis channel, every connection that *)
(* is still subscribed pumps what it receives into its send queue, and the *)
(* agent reads one connection at a time; job_cancel goes to the send queue *)
(* directly.  Frames are records [type, run, seq].  A job is one frame of  *)
(* type "job" the agent accepted: a job frame that is sent again makes a   *)
(* second job of the same run.  The archive of a workspace unpacks only    *)
(* when no chunk of it is missing (gzip and tar check what seq does not).  *)
(* Source: src/backend/internal/runner/{hub,remote}.go,                    *)
(* cmd/gitdash-runner/main.go.                                             *)
(***************************************************************************)
EXTENDS Naturals, Sequences, FiniteSets

CONSTANTS
    Runs,      \* pipeline runs sent to this runner
    Slots,     \* concurrency of the agent
    MaxTries,  \* how often RunRemote dispatches a job that is not acknowledged
    Chunks,    \* chunks of a workspace, the last one with eof
    DataCap,   \* chunks that a job's channel holds
    MaxConns,  \* bound on the connections of a behaviour
    MaxJobs,   \* bound on the jobs the agent accepts
    MaxFaults  \* bound on lost frames, late answers, deadlines, lost links, crashes

VARIABLES
    \* RunRemote, one call per run
    rpc,       \* "idle", "dispatch", "await", "stream", "wait" or "done"
    res,       \* what it returned
    tries,     \* dispatches so far
    sent,      \* chunks streamed so far
    cancelled, \* sctx.Err() # nil
    sessions,  \* runs with an entry in Hub.sessions
    events,    \* the events channel of each session
    cpc,       \* Hub.Cancel of each run: "idle", "cast" or "done"
    \* connections, numbered in the order they are opened
    hub,       \* the hub's side: "none", "live", "kicked" or "gone"
    link,      \* the TCP connection: "none", "up" or "down"
    pub,       \* received from redis, not pumped yet
    out,       \* the send queue and the frames on the wire
    in,        \* frames on the wire to the hub
    online,    \* runners.status is "online"
    \* the agent
    conn,      \* a.conn while its read loop runs, 0 when it has none
    waiting,   \* the run the read loop waits for a slot with, or NoRun
    handing,   \* the job with the full channel the read loop waits for, 0 for none;
               \* the chunk is the head of out until the channel has taken it
    entry,     \* a.jobs: the job a run's frames are routed to, 0 for none
    jobs,      \* every job accepted so far
    faults

serverVars == <<rpc, res, tries, sent, cancelled, sessions, events, cpc>>
wireVars   == <<hub, link, pub, out, in>>
agentVars  == <<conn, waiting, handing, entry, jobs>>
vars == <<serverVars, wireVars, online, agentVars, faults>>

Conns  == 1 .. MaxConns
NoRun  == "none"
Frame(type, r, seq) == [type |-> type, run |-> r, seq |-> seq]
Fault  == faults < MaxFaults /\ faults' = faults + 1
Subscribed == {c \in Conns : hub[c] \in {"live", "kicked"}}

RemoteAssumption ==
    /\ Chunks \in Nat \ {0} /\ DataCap \in Nat \ {0}
    /\ MaxTries \in Nat \ {0} /\ MaxConns \in Nat

Init ==
    /\ rpc = [r \in Runs |-> "idle"] /\ res = [r \in Runs |-> "none"]
    /\ tries = [r \in Runs |-> 0] /\ sent = [r \in Runs |-> 0]
    /\ cancelled = [r \in Runs |-> FALSE]
    /\ sessions = {} /\ events = [r \in Runs |-> <<>>]
    /\ cpc = [r \in Runs |-> "idle"]
    /\ hub = [c \in Conns |-> "none"] /\ link = [c \in Conns |-> "none"]
    /\ pub = [c \in Conns |-> <<>>] /\ out = [c \in Conns |-> <<>>]
    /\ in = [c \in Conns |-> <<>>]
    /\ online = FALSE
    /\ conn = 0 /\ waiting = NoRun /\ handing = 0
    /\ entry = [r \in Runs |-> 0] /\ jobs = <<>>
    /\ faults = 0

----------------------------------------------------------------------------
(* RunRemote.                                                              *)

\* Dispatch: redis hands the frame to the connections subscribed at the moment.
Publish(f) == pub' = [c \in Conns |-> IF c \in Subscribed THEN Append(pub[c], f) ELSE pub[c]]

\* Mutant: the session outlives the call.
ReturnOnly(r, result) ==
    /\ rpc' = [rpc EXCEPT ![r] = "done"]
    /\ res' = [res EXCEPT ![r] = result]
    /\ UNCHANGED <<sessions, events>>

\* RunRemote returns; its deferred call removes the session.
Return(r, result) ==
    /\ rpc' = [rpc EXCEPT ![r] = "done"]
    /\ res' = [res EXCEPT ![r] = result]
    /\ sessions' = sessions \ {r}
    /\ events' = [events EXCEPT ![r] = <<>>]

\* SelectRunner chose this runner while it was online; the session is registered.
Start(r) ==
    /\ rpc[r] = "idle" /\ conn # 0
    /\ rpc' = [rpc EXCEPT ![r] = "dispatch"]
    /\ sessions' = sessions \cup {r}
    /\ UNCHANGED <<res, tries, sent, cancelled, events, cpc, wireVars, online,
                   agentVars, faults>>

\* The loop publishes the job without looking at the context first.
Dispatch(r) ==
    /\ rpc[r] = "dispatch"
    /\ Publish(Frame("job", r, 0))
    /\ tries' = [tries EXCEPT ![r] = @ + 1]
    /\ rpc' = [rpc EXCEPT ![r] = "await"]
    /\ UNCHANGED <<res, sent, cancelled, sessions, events, cpc, hub, link, out, in,
                   online, agentVars, faults>>

\* The first event has to be an ack.
Await(r) ==
    /\ rpc[r] = "await" /\ events[r] # <<>>
    /\ IF Head(events[r]).type = "ack"
       THEN /\ rpc' = [rpc EXCEPT ![r] = "stream"]
            /\ events' = [events EXCEPT ![r] = Tail(@)]
            /\ UNCHANGED <<res, sessions>>
       ELSE Return(r, "failed")
    /\ UNCHANGED <<tries, sent, cancelled, cpc, wireVars, online, agentVars, faults>>

\* Mutant: a job that is not heard of is dispatched again after its workspace
\* was streamed, too, and the workspace with it.
AnyTimeout(r) ==
    /\ rpc[r] \in {"await", "wait"} /\ events[r] = <<>> /\ Fault
    /\ tries[r] < MaxTries
    /\ rpc' = [rpc EXCEPT ![r] = "dispatch"]
    /\ sent' = [sent EXCEPT ![r] = 0]
    /\ UNCHANGED <<res, tries, cancelled, sessions, events, cpc, wireVars, online, agentVars>>

\* One second without an event: the job is dispatched again, or given up.
AwaitTimeout(r) ==
    /\ rpc[r] = "await" /\ events[r] = <<>> /\ Fault
    /\ IF tries[r] < MaxTries
       THEN rpc' = [rpc EXCEPT ![r] = "dispatch"] /\ UNCHANGED <<res, sessions, events>>
       ELSE Return(r, "timeout")
    /\ UNCHANGED <<tries, sent, cancelled, cpc, wireVars, online, agentVars>>

\* streamWorkspace: one chunk.
Stream(r) ==
    /\ rpc[r] = "stream"
    /\ sent[r] > 0 => ~cancelled[r]
    /\ Publish(Frame("data", r, sent[r] + 1))
    /\ sent' = [sent EXCEPT ![r] = @ + 1]
    /\ rpc' = IF sent'[r] = Chunks THEN [rpc EXCEPT ![r] = "wait"] ELSE rpc
    /\ UNCHANGED <<res, tries, cancelled, sessions, events, cpc, hub, link, out, in,
                   online, agentVars, faults>>

\* An event of the job: a terminal status ends the call, the rest does not.
Wait(r) ==
    /\ rpc[r] = "wait" /\ events[r] # <<>>
    /\ IF Head(events[r]).type \in {"success", "failed"}
       THEN Return(r, Head(events[r]).type)
       ELSE events' = [events EXCEPT ![r] = Tail(@)] /\ UNCHANGED <<rpc, res, sessions>>
    /\ UNCHANGED <<tries, sent, cancelled, cpc, wireVars, online, agentVars, faults>>

\* sctx.Done in the two waits, and between two chunks.
Cancelled(r) ==
    /\ cancelled[r]
    /\ rpc[r] \in {"await", "wait"} \/ (rpc[r] = "stream" /\ sent[r] > 0)
    /\ Return(r, "cancelled")
    /\ UNCHANGED <<tries, sent, cancelled, cpc, wireVars, online, agentVars, faults>>

\* The job timeout of executeRun: nobody tells the agent.
Deadline(r) ==
    /\ r \in sessions /\ ~cancelled[r] /\ Fault
    /\ cancelled' = [cancelled EXCEPT ![r] = TRUE]
    /\ UNCHANGED <<rpc, res, tries, sent, sessions, events, cpc, wireVars, online, agentVars>>

\* Hub.Cancel: end the session's context, then put job_cancel in the send queues.
Cancel(r) ==
    /\ cpc[r] = "idle" /\ r \in sessions
    /\ cancelled' = [cancelled EXCEPT ![r] = TRUE]
    /\ cpc' = [cpc EXCEPT ![r] = "cast"]
    /\ UNCHANGED <<rpc, res, tries, sent, sessions, events, wireVars, online,
                   agentVars, faults>>

\* A full send queue drops the frame; no two connections are live.
CancelCast(r) ==
    /\ cpc[r] = "cast"
    /\ cpc' = [cpc EXCEPT ![r] = "done"]
    /\ \/ /\ out' = [c \in Conns |-> IF hub[c] = "live"
                                     THEN Append(out[c], Frame("cancel", r, 0)) ELSE out[c]]
          /\ UNCHANGED faults
       \/ UNCHANGED out /\ (\E c \in Conns : hub[c] = "live") /\ Fault
    /\ UNCHANGED <<rpc, res, tries, sent, cancelled, sessions, events, hub, link, pub,
                   in, online, agentVars>>

----------------------------------------------------------------------------
(* The hub's connections.                                                  *)

\* The process dies and comes back without sessions or connections.
Restart ==
    /\ rpc' = [r \in Runs |-> IF r \in sessions THEN "done" ELSE rpc[r]]
    /\ res' = [r \in Runs |-> IF r \in sessions THEN "lost" ELSE res[r]]
    /\ sessions' = {}
    /\ events' = [r \in Runs |-> <<>>]
    /\ cpc' = [r \in Runs |-> IF cpc[r] = "cast" THEN "done" ELSE cpc[r]]
    /\ hub' = [c \in Conns |-> IF hub[c] = "none" THEN "none" ELSE "gone"]
    /\ link' = [c \in Conns |-> IF link[c] = "up" THEN "down" ELSE link[c]]
    /\ pub' = [c \in Conns |-> <<>>] /\ in' = [c \in Conns |-> <<>>]
    /\ UNCHANGED <<tries, sent, cancelled, online, agentVars>>

\* redisPump of a live connection; a full send queue drops the frame.
Pump(c) ==
    /\ hub[c] = "live" /\ pub[c] # <<>>
    /\ pub' = [pub EXCEPT ![c] = Tail(@)]
    /\ \/ out' = [out EXCEPT ![c] = Append(@, Head(pub[c]))] /\ UNCHANGED faults
       \/ UNCHANGED out /\ Fault
    /\ UNCHANGED <<serverVars, hub, link, in, online, agentVars>>

\* redisPump of a connection that was kicked sends on a closed channel: the
\* process panics.
PumpClosed(c) ==
    /\ hub[c] = "kicked" /\ pub[c] # <<>>
    /\ Restart
    /\ UNCHANGED <<out, faults>>

Crash == Fault /\ Restart /\ UNCHANGED out

\* handleAgentEvent: to the session of the run, if there is one; a full events
\* channel drops the event.
HubRead(c) ==
    /\ c \in Subscribed /\ in[c] # <<>>
    /\ in' = [in EXCEPT ![c] = Tail(@)]
    /\ LET f == Head(in[c]) IN
         \/ /\ events' = IF f.run \in sessions
                         THEN [events EXCEPT ![f.run] = Append(@, f)] ELSE events
            /\ UNCHANGED faults
         \/ f.run \in sessions /\ UNCHANGED events /\ Fault
    /\ UNCHANGED <<rpc, res, tries, sent, cancelled, sessions, cpc, hub, link, pub, out,
                   online, agentVars>>

\* Mutant: a heartbeat only says when the runner was seen last.
HeartbeatSeen(c) ==
    /\ conn = c /\ link[c] = "up"
    /\ UNCHANGED vars

Heartbeat(c) ==
    /\ conn = c /\ link[c] = "up" /\ ~online
    /\ online' = TRUE
    /\ UNCHANGED <<serverVars, wireVars, agentVars, faults>>

\* The end of serveConn: the runner is marked offline, whoever is connected now.
Teardown(c) ==
    /\ c \in Subscribed /\ link[c] = "down"
    /\ hub' = [hub EXCEPT ![c] = "gone"]
    /\ pub' = [pub EXCEPT ![c] = <<>>] /\ in' = [in EXCEPT ![c] = <<>>]
    /\ online' = FALSE
    /\ UNCHANGED <<serverVars, link, out, agentVars, faults>>

\* The agent connects again: serveConn kicks the connection of the same name,
\* which stays subscribed until its own read fails.
Connect(c) ==
    /\ conn = 0 /\ hub[c] = "none" /\ \A d \in 1 .. c - 1 : hub[d] # "none"
    /\ hub' = [d \in Conns |-> IF d = c THEN "live"
                               ELSE IF hub[d] = "live" THEN "kicked" ELSE hub[d]]
    /\ link' = [link EXCEPT ![c] = "up"]
    /\ conn' = c
    /\ online' = TRUE
    /\ UNCHANGED <<serverVars, pub, out, in, waiting, handing, entry, jobs, faults>>

LinkLost(c) ==
    /\ link[c] = "up" /\ Fault
    /\ link' = [link EXCEPT ![c] = "down"]
    /\ UNCHANGED <<serverVars, hub, pub, out, in, online, agentVars>>

----------------------------------------------------------------------------
(* The agent.                                                              *)

\* a.send writes to the connection a.conn names, whichever the job came from.
Send(f) == in' = IF conn = 0 \/ link[conn] = "down" THEN in
                 ELSE [in EXCEPT ![conn] = Append(@, f)]

\* The jobs that hold a slot of the current connection.
Used == {k \in DOMAIN jobs : jobs[k].conn = conn /\ jobs[k].pc # "done"}

\* The read loop is in its read: nowhere else does it notice that the link is lost.
Reading == conn # 0 /\ waiting = NoRun /\ handing = 0

Arrived(type) ==
    /\ Reading /\ link[conn] = "up"
    /\ out[conn] # <<>> /\ Head(out[conn]).type = type

NextFrame(type) ==
    /\ Arrived(type)
    /\ out' = [out EXCEPT ![conn] = Tail(@)]

\* Mutant: a job is not acknowledged.
ReadJobOnly ==
    /\ NextFrame("job")
    /\ Len(jobs) < MaxJobs
    /\ waiting' = Head(out[conn]).run
    /\ UNCHANGED <<serverVars, hub, link, pub, in, online, conn, handing, entry, jobs, faults>>

\* A job is acknowledged at once, then the read loop waits for a slot.
ReadJob ==
    /\ NextFrame("job")
    /\ Len(jobs) < MaxJobs
    /\ waiting' = Head(out[conn]).run
    /\ Send(Frame("ack", waiting', 0))
    /\ UNCHANGED <<serverVars, hub, link, pub, online, conn, handing, entry, jobs, faults>>

TakeSlot ==
    /\ waiting # NoRun /\ Cardinality(Used) < Slots
    /\ jobs' = Append(jobs, [run |-> waiting, conn |-> conn, pc |-> "recv",
                             cancelled |-> FALSE, data |-> <<>>, got |-> <<>>,
                             ran |-> FALSE, outcome |-> "none", drains |-> FALSE])
    /\ entry' = [entry EXCEPT ![waiting] = Len(jobs')]
    /\ waiting' = NoRun
    /\ UNCHANGED <<serverVars, wireVars, online, conn, handing, faults>>

Room(k)    == Len(jobs[k].data) < DataCap
Put(k, seq) == jobs' = [jobs EXCEPT ![k].data = Append(@, seq)]

\* A chunk goes to the job the run's entry names, or nowhere.
ReadData ==
    /\ NextFrame("data")
    /\ LET f == Head(out[conn])
           k == entry[f.run]
       IN IF k = 0 THEN UNCHANGED jobs ELSE Room(k) /\ Put(k, f.seq)
    /\ UNCHANGED <<serverVars, hub, link, pub, in, online, conn, waiting, handing, entry, faults>>

\* The channel is full: the read loop waits, with the job it looked up and no context.
DataBlocks ==
    /\ Arrived("data")
    /\ LET k == entry[Head(out[conn]).run] IN k # 0 /\ ~Room(k) /\ handing' = k
    /\ UNCHANGED <<serverVars, wireVars, online, conn, waiting, entry, jobs, faults>>

HandOver ==
    /\ handing # 0 /\ Room(handing)
    /\ Put(handing, Head(out[conn]).seq)
    /\ out' = [out EXCEPT ![conn] = Tail(@)]
    /\ handing' = 0
    /\ UNCHANGED <<serverVars, hub, link, pub, in, online, conn, waiting, entry, faults>>

ReadCancel ==
    /\ NextFrame("cancel")
    /\ LET f == Head(out[conn]) IN
         jobs' = IF entry[f.run] = 0 THEN jobs
                 ELSE [jobs EXCEPT ![entry[f.run]].cancelled = TRUE]
    /\ UNCHANGED <<serverVars, hub, link, pub, in, online, conn, waiting, handing, entry, faults>>

\* Mutant: the jobs of a connection that was lost are not told.
DisconnectOnly ==
    /\ Reading /\ link[conn] = "down"
    /\ out' = [out EXCEPT ![conn] = <<>>]
    /\ conn' = 0
    /\ UNCHANGED <<serverVars, hub, link, pub, in, online, waiting, handing, entry, jobs, faults>>

\* The read fails: the context of the connection's jobs ends.
Disconnect ==
    /\ Reading /\ link[conn] = "down"
    /\ jobs' = [k \in DOMAIN jobs |-> IF jobs[k].conn = conn
                                      THEN [jobs[k] EXCEPT !.cancelled = TRUE] ELSE jobs[k]]
    /\ out' = [out EXCEPT ![conn] = <<>>]
    /\ conn' = 0
    /\ UNCHANGED <<serverVars, hub, link, pub, in, online, waiting, handing, entry, faults>>

\* Mutant: the agent takes the chunk with eof for the whole archive.
HasEof(got) == got[Len(got)] = Chunks

\* The archive unpacks when every chunk arrived, in order.
Complete(got) == got = [n \in 1 .. Chunks |-> n]

\* recvWorkspace: chunks until the one with eof, then unpack and start.
Receive(k) ==
    /\ jobs[k].pc = "recv" /\ jobs[k].data # <<>>
    /\ LET got == Append(jobs[k].got, Head(jobs[k].data))
           eof == Head(jobs[k].data) = Chunks
           run == Complete(got)
       IN /\ jobs' = [jobs EXCEPT
                        ![k].got = got, ![k].data = Tail(@), ![k].ran = eof /\ run,
                        ![k].pc = IF ~eof THEN "recv" ELSE IF run THEN "run" ELSE "exit",
                        ![k].outcome = IF eof /\ ~run THEN "failed" ELSE @,
                        ![k].drains = eof /\ ~run]
          /\ IF eof THEN Send(Frame(IF run THEN "running" ELSE "failed", jobs[k].run, 0))
             ELSE UNCHANGED in
    /\ UNCHANGED <<serverVars, hub, link, pub, out, online, conn, waiting, handing, entry,
                   faults>>

\* execJob reports a terminal status; a cancelled context makes it "failed".
Report(k, outcome) ==
    /\ jobs' = [jobs EXCEPT ![k].pc = "exit", ![k].outcome = outcome, ![k].drains = TRUE]
    /\ Send(Frame(outcome, jobs[k].run, 0))
    /\ UNCHANGED <<serverVars, hub, link, pub, out, online, conn, waiting, handing, entry,
                   faults>>

Finish(k)  == jobs[k].pc = "run" /\ \E o \in {"success", "failed"} : Report(k, o)
Abandon(k) == jobs[k].pc \in {"recv", "run"} /\ jobs[k].cancelled /\ Report(k, "failed")

\* The goroutine removes the run's entry, even when it names another job by now.
Exit(k) ==
    /\ jobs[k].pc = "exit"
    /\ jobs' = [jobs EXCEPT ![k].pc = "done"]
    /\ entry' = [entry EXCEPT ![jobs[k].run] = 0]
    /\ UNCHANGED <<serverVars, wireVars, online, conn, waiting, handing, faults>>

\* What execJob leaves behind empties the channel, until the job's context ends; it
\* matters once the read loop waits for the channel, and is looked at only then.
Drain(k) ==
    /\ jobs[k].drains /\ handing = k
    /\ \/ jobs[k].data # <<>> /\ jobs' = [jobs EXCEPT ![k].data = Tail(@)]
       \/ jobs[k].cancelled /\ jobs' = [jobs EXCEPT ![k].drains = FALSE]
    /\ UNCHANGED <<serverVars, wireVars, online, conn, waiting, handing, entry, faults>>

----------------------------------------------------------------------------
RunRemote(r) ==
    \/ Dispatch(r) \/ Await(r) \/ Stream(r) \/ Wait(r) \/ Cancelled(r) \/ CancelCast(r)
HubStep(c)  == Pump(c) \/ PumpClosed(c) \/ HubRead(c) \/ Teardown(c)
ReadLoop ==
    ReadJob \/ TakeSlot \/ ReadData \/ DataBlocks \/ HandOver \/ ReadCancel \/ Disconnect
Job(k)   == k \in DOMAIN jobs /\ (Receive(k) \/ Finish(k) \/ Abandon(k) \/ Exit(k))
Drains(k) == k \in DOMAIN jobs /\ Drain(k)

Next ==
    \/ \E r \in Runs : Start(r) \/ RunRemote(r) \/ Cancel(r) \/ AwaitTimeout(r) \/ Deadline(r)
    \/ \E c \in Conns : HubStep(c) \/ Heartbeat(c) \/ Connect(c) \/ LinkLost(c)
    \/ ReadLoop
    \/ \E k \in 1 .. MaxJobs : Job(k) \/ Drains(k)
    \/ Crash

\* Goroutines and timers run, the agent reconnects and its containers end;
\* nothing has to go wrong and nobody has to start or cancel a run.
Fairness ==
    /\ \A r \in Runs : WF_vars(RunRemote(r))
    /\ \A c \in Conns : WF_vars(HubStep(c)) /\ WF_vars(Heartbeat(c)) /\ WF_vars(Connect(c))
    /\ WF_vars(ReadLoop)
    /\ \A k \in 1 .. MaxJobs : WF_vars(Job(k)) /\ WF_vars(Drains(k))

Spec == Init /\ [][Next]_vars /\ Fairness

----------------------------------------------------------------------------
(* Properties.                                                             *)

Steps == {"idle", "dispatch", "await", "stream", "wait", "done"}
TypeOK ==
    /\ rpc \in [Runs -> Steps]
    /\ res \in [Runs -> {"none", "success", "failed", "timeout", "cancelled", "lost"}]
    /\ tries \in [Runs -> 0 .. MaxTries] /\ sent \in [Runs -> 0 .. Chunks]
    /\ sessions = {r \in Runs : rpc[r] \notin {"idle", "done"}}
    /\ hub \in [Conns -> {"none", "live", "kicked", "gone"}]
    /\ link \in [Conns -> {"none", "up", "down"}]
    /\ conn \in 0 .. MaxConns /\ waiting \in Runs \cup {NoRun}
    /\ handing \in 0 .. Len(jobs) /\ entry \in [Runs -> 0 .. Len(jobs)]

\* A run whose job frame was sent more than once is executed at most once: the
\* workspace is streamed once and no second job can collect all of it, whatever
\* was lost, cancelled or reconnected (RunRemote, remote.go:68-101).
ExecutedOnce ==
    \A j, k \in DOMAIN jobs :
        jobs[j].run = jobs[k].run /\ jobs[j].ran /\ jobs[k].ran => j = k

\* RunRemote returns success only for a job that executed with every chunk of
\* the workspace and reported success, although a full send queue drops chunks
\* without a word (redisPump, hub.go:351-372; remote.go:103-158).
SuccessIsReal ==
    \A r \in Runs : res[r] = "success" =>
        \E k \in DOMAIN jobs :
            /\ jobs[k].run = r /\ jobs[k].ran /\ jobs[k].outcome = "success"
            /\ jobs[k].got = [n \in 1 .. Chunks |-> n]

\* With a slot for every run, and unless a frame or answer is lost or late or
\* somebody cancels, every run that starts ends with the status the agent reported.
Completes ==
    \A r \in Runs :
        (rpc[r] = "dispatch") ~>
            (faults > 0 \/ cpc[r] # "idle" \/ res[r] \in {"success", "failed"})

\* The read loop waits for what never comes: for a slot, while every slot is held
\* by a job whose chunks are behind the frame it has in hand; or for the channel of
\* a job that has ended and, since it was cancelled, is not drained any more.
Stuck ==
    \/ /\ waiting # NoRun /\ Cardinality(Used) >= Slots
       /\ \A k \in Used : jobs[k].pc = "recv" /\ jobs[k].data = <<>> /\ ~jobs[k].cancelled
    \/ /\ handing # 0 /\ ~Room(handing)
       /\ jobs[handing].pc \in {"exit", "done"} /\ jobs[handing].cancelled
       /\ ~jobs[handing].drains

\* The connections whose link was lost.
Down == {c \in DOMAIN link : link[c] = "down"}

\* When a link is lost the agent leaves the connection and all its jobs end, with
\* their slots, but for an agent that is stuck: only a read notices the loss, and
\* its read loop is not in one, nor will be (runConn: main.go:347, 362-366, 387).
LostJobsEnd ==
    \A c \in Conns :
        (c \in Down) ~>
            (Stuck \/ (conn # c /\ \A k \in DOMAIN jobs : jobs[k].conn = c => jobs[k].pc = "done"))

\* Once an agent stays connected it stays marked online, although the teardown
\* of its earlier connection marks it offline (hub.go:210-218, 264-266).
StatusSettles ==
    <>[](\E c \in Conns : conn = c /\ link[c] = "up") => <>[]online

=============================================================================
