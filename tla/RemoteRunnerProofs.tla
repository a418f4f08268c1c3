------------------------- MODULE RemoteRunnerProofs -------------------------
(***************************************************************************)
(* Proofs about RemoteRunner: its type invariant, that a run is executed   *)
(* at most once, and that success is that of a job which ran with its      *)
(* whole workspace, for any number of runs, chunks, slots, jobs and        *)
(* connections, and any faults.                                            *)
(***************************************************************************)
EXTENDS RemoteRunner, TLAPS

\* Every behaviour of the steps, whatever fairness is assumed of them.
Behaviour == Init /\ [][Next]_vars

----------------------------------------------------------------------------
(* Remote execution: its inductive invariant.                              *)

Elems(q) == {q[i] : i \in DOMAIN q}

Frames == [type : {"job", "data", "cancel", "ack", "running", "success", "failed"},
           run : Runs, seq : Nat]

AgentJobs == [run : Runs, conn : 0 .. MaxConns, pc : {"recv", "run", "exit", "done"},
              cancelled : BOOLEAN, data : Seq(Nat), got : Seq(Nat), ran : BOOLEAN,
              outcome : {"none", "success", "failed"}, drains : BOOLEAN]

ServerOK ==
    /\ rpc \in [Runs -> Steps]
    /\ res \in [Runs -> {"none", "success", "failed", "timeout", "cancelled", "lost"}]
    /\ tries \in [Runs -> 0 .. MaxTries]
    /\ sent \in [Runs -> 0 .. Chunks]
    /\ sessions = {r \in Runs : rpc[r] \notin {"idle", "done"}}
    /\ events \in [Runs -> Seq(Frames)]
    /\ \A r \in Runs :
         /\ rpc[r] = "dispatch" => tries[r] < MaxTries
         /\ rpc[r] \in {"idle", "dispatch", "await"} => sent[r] = 0
         /\ rpc[r] = "idle" => tries[r] = 0
         /\ rpc[r] = "stream" => sent[r] < Chunks
         /\ \A f \in Elems(events[r]) : f.run = r

WireOK ==
    /\ hub \in [Conns -> {"none", "live", "kicked", "gone"}]
    /\ link \in [Conns -> {"none", "up", "down"}]
    /\ pub \in [Conns -> Seq(Frames)]
    /\ out \in [Conns -> Seq(Frames)]
    /\ in \in [Conns -> Seq(Frames)]
    /\ \A c \in Conns : hub[c] = "none" => pub[c] = << >> /\ out[c] = << >>

AgentOK ==
    /\ conn \in 0 .. MaxConns /\ waiting \in Runs \cup {NoRun}
    /\ jobs \in Seq(AgentJobs)
    /\ entry \in [Runs -> 0 .. Len(jobs)]
    /\ \A r \in Runs : entry[r] # 0 => jobs[entry[r]].run = r

\* The chunks of a run that were read for a job.
Delivered(k) == Elems(jobs[k].got) \cup Elems(jobs[k].data)

\* A chunk follows the chunks of its run.
Follows(f, g) == f.type = "data" /\ g.type = "data" /\ f.run = g.run => f.seq < g.seq

Rising(q) == \A i, j \in DOMAIN q : i < j => Follows(q[i], q[j])

\* On every connection the chunks of a run go out in order, each of them once, ...
InOrder(o, p) ==
    Rising(o) /\ Rising(p) /\ \A f \in Elems(o), g \in Elems(p) : Follows(f, g)

ChunksInOrder == \A c \in Conns : InOrder(out[c], pub[c])

\* ... and are some that were sent, ...
ChunksSent ==
    /\ \A c \in Conns : \A f \in Elems(out[c]) \cup Elems(pub[c]) :
         f.type = "data" => f.seq <= sent[f.run]
    /\ \A k \in DOMAIN jobs : \A s \in Delivered(k) : s <= sent[jobs[k].run]

\* ... and the agent has not read them, on whatever connection.
ChunksAreNew ==
    conn # 0 =>
        \A k \in DOMAIN jobs : \A s \in Delivered(k) :
            \A f \in Elems(out[conn]) \cup Elems(pub[conn]) :
                f.type = "data" /\ f.run = jobs[k].run => s < f.seq

\* Two jobs of a run never share a chunk.
ChunksOnce ==
    \A j, k \in DOMAIN jobs :
        j # k /\ jobs[j].run = jobs[k].run => Delivered(j) \cap Delivered(k) = {}

\* A job runs only with the whole workspace, and success is that of a job that ran.
JobsAreWhole ==
    \A k \in DOMAIN jobs :
        /\ jobs[k].pc = "recv" => ~jobs[k].ran /\ jobs[k].outcome = "none"
        /\ jobs[k].pc = "run" => jobs[k].ran /\ jobs[k].outcome = "none"
        /\ jobs[k].outcome = "success" => jobs[k].ran
        /\ jobs[k].ran => jobs[k].got = [n \in 1 .. Chunks |-> n]

\* Who says success speaks for such a job.
Succeeded(r) == \E k \in DOMAIN jobs : jobs[k].run = r /\ jobs[k].ran /\ jobs[k].outcome = "success"

SuccessReported ==
    /\ \A c \in Conns : \A f \in Elems(in[c]) : f.type = "success" => Succeeded(f.run)
    /\ \A r \in Runs : \A f \in Elems(events[r]) : f.type = "success" => Succeeded(r)
    /\ \A r \in Runs : res[r] = "success" => Succeeded(r)

RemoteInv ==
    /\ RemoteAssumption
    /\ ServerOK /\ WireOK /\ AgentOK
    /\ ChunksInOrder /\ ChunksSent /\ ChunksAreNew /\ ChunksOnce
    /\ JobsAreWhole /\ SuccessReported

\* The read loop that waits for a full channel has a chunk of the job in hand.
HandsOver ==
    /\ handing \in 0 .. Len(jobs)
    /\ handing # 0 =>
         /\ conn # 0 /\ out[conn] # << >> /\ Head(out[conn]).type = "data"
         /\ Head(out[conn]).run = jobs[handing].run

----------------------------------------------------------------------------
(* Queues.                                                                 *)

LEMMA AppendElems ==
    ASSUME NEW S, NEW q \in Seq(S), NEW f \in S
    PROVE  /\ Append(q, f) \in Seq(S) /\ Elems(Append(q, f)) = Elems(q) \cup {f}
           /\ Len(Append(q, f)) = Len(q) + 1 /\ Append(q, f)[Len(q) + 1] = f
           /\ \A i \in DOMAIN q : Append(q, f)[i] = q[i]
           /\ DOMAIN Append(q, f) = DOMAIN q \cup {Len(q) + 1}
<1>1. /\ Append(q, f) \in Seq(S) /\ Len(Append(q, f)) = Len(q) + 1
      /\ Append(q, f)[Len(q) + 1] = f /\ \A i \in DOMAIN q : Append(q, f)[i] = q[i]
      /\ DOMAIN q = 1 .. Len(q) /\ DOMAIN Append(q, f) = 1 .. Len(q) + 1 /\ Len(q) \in Nat
    OBVIOUS
<1>2. DOMAIN Append(q, f) = DOMAIN q \cup {Len(q) + 1}
    BY <1>1
<1>3. Elems(Append(q, f)) = Elems(q) \cup {f}
    BY <1>1, <1>2 DEF Elems
<1> QED
    BY <1>1, <1>2, <1>3

LEMMA TailElems ==
    ASSUME NEW S, NEW q \in Seq(S), q # << >>
    PROVE  /\ Tail(q) \in Seq(S) /\ Elems(Tail(q)) \subseteq Elems(q)
           /\ Head(q) \in S /\ Head(q) \in Elems(q)
           /\ Elems(q) = Elems(Tail(q)) \cup {Head(q)}
<1>1. /\ Tail(q) \in Seq(S) /\ Len(Tail(q)) = Len(q) - 1 /\ Len(q) \in Nat \ {0}
      /\ DOMAIN q = 1 .. Len(q) /\ DOMAIN Tail(q) = 1 .. Len(q) - 1
      /\ Head(q) = q[1] /\ \A i \in 1 .. Len(q) - 1 : Tail(q)[i] = q[i + 1]
    OBVIOUS
<1>2. Head(q) \in Elems(q) /\ Head(q) \in S
    BY <1>1 DEF Elems
<1>3. Elems(Tail(q)) \subseteq Elems(q)
    BY <1>1 DEF Elems
<1>4. ASSUME NEW i \in DOMAIN q, i # 1 PROVE q[i] \in Elems(Tail(q))
  <2>1. i - 1 \in 1 .. Len(q) - 1 /\ (i - 1) + 1 = i
      BY <1>1, <1>4
  <2> QED
      BY <1>1, <2>1 DEF Elems
<1>5. Elems(q) \subseteq Elems(Tail(q)) \cup {Head(q)}
    BY <1>1, <1>4 DEF Elems
<1> QED
    BY <1>1, <1>2, <1>3, <1>5

LEMMA NoElems == Elems(<< >>) = {} /\ Rising(<< >>)
    BY DEF Elems, Rising

LEMMA RisingAppend ==
    ASSUME NEW S, NEW q \in Seq(S), NEW f \in S, Rising(q), \A g \in Elems(q) : Follows(g, f)
    PROVE  Rising(Append(q, f))
<1>1. /\ DOMAIN q = 1 .. Len(q) /\ Len(q) \in Nat /\ DOMAIN Append(q, f) = 1 .. Len(q) + 1
      /\ Append(q, f)[Len(q) + 1] = f /\ \A i \in 1 .. Len(q) : Append(q, f)[i] = q[i]
    OBVIOUS
<1>2. ASSUME NEW i \in 1 .. Len(q) + 1, NEW j \in 1 .. Len(q) + 1, i < j
      PROVE  Follows(Append(q, f)[i], Append(q, f)[j])
  <2>1. i \in 1 .. Len(q) /\ Append(q, f)[i] = q[i]
      BY <1>1, <1>2
  <2>2. CASE j = Len(q) + 1
      BY <1>1, <2>1, <2>2 DEF Elems
  <2>3. CASE j # Len(q) + 1
    <3>1. j \in 1 .. Len(q) /\ Append(q, f)[j] = q[j]
        BY <1>1, <1>2, <2>3
    <3> QED
        BY <1>1, <1>2, <2>1, <3>1 DEF Rising
  <2> QED
      BY <2>2, <2>3
<1> QED
    BY <1>1, <1>2 DEF Rising

LEMMA RisingTail ==
    ASSUME NEW S, NEW q \in Seq(S), Rising(q), q # << >>
    PROVE  /\ Rising(Tail(q))
           /\ \A g \in Elems(Tail(q)) : Follows(Head(q), g)
<1>1. /\ Len(q) \in Nat \ {0} /\ DOMAIN q = 1 .. Len(q) /\ DOMAIN Tail(q) = 1 .. Len(q) - 1
      /\ Head(q) = q[1] /\ \A i \in 1 .. Len(q) - 1 : Tail(q)[i] = q[i + 1]
    OBVIOUS
<1>2. ASSUME NEW i \in 1 .. Len(q) - 1 PROVE i + 1 \in DOMAIN q /\ 1 \in DOMAIN q /\ 1 < i + 1
    BY <1>1
<1>3. ASSUME NEW i \in 1 .. Len(q) - 1, NEW j \in 1 .. Len(q) - 1, i < j
      PROVE  Follows(q[i + 1], q[j + 1])
  <2>1. i + 1 < j + 1
      BY <1>3
  <2> QED
      BY <1>2, <2>1 DEF Rising
<1>4. Rising(Tail(q))
    BY <1>1, <1>3 DEF Rising
<1>5. \A g \in Elems(Tail(q)) : Follows(Head(q), g)
    BY <1>1, <1>2 DEF Rising, Elems
<1> QED
    BY <1>4, <1>5

\* A frame is published to a connection, or a frame that is no chunk goes out.
LEMMA InOrderAppend ==
    ASSUME NEW o \in Seq(Frames), NEW p \in Seq(Frames), NEW f \in Frames, InOrder(o, p)
    PROVE  /\ (\A g \in Elems(o) \cup Elems(p) : Follows(g, f)) => InOrder(o, Append(p, f))
           /\ f.type # "data" => InOrder(Append(o, f), p)
<1>1. ASSUME \A g \in Elems(o) \cup Elems(p) : Follows(g, f)
      PROVE  InOrder(o, Append(p, f))
  <2>1. Rising(Append(p, f))
      BY <1>1, RisingAppend DEF InOrder
  <2>2. Elems(Append(p, f)) = Elems(p) \cup {f}
      BY AppendElems
  <2> QED
      BY <1>1, <2>1, <2>2 DEF InOrder
<1>2. ASSUME f.type # "data"
      PROVE  InOrder(Append(o, f), p)
  <2>1. \A g : Follows(f, g) /\ Follows(g, f)
      BY <1>2 DEF Follows
  <2>2. Rising(Append(o, f))
      BY <2>1, RisingAppend DEF InOrder
  <2>3. Elems(Append(o, f)) = Elems(o) \cup {f}
      BY AppendElems
  <2> QED
      BY <2>1, <2>2, <2>3 DEF InOrder
<1> QED
    BY <1>1, <1>2

\* A frame is read, pumped, or dropped.
LEMMA InOrderTail ==
    ASSUME NEW o \in Seq(Frames), NEW p \in Seq(Frames), InOrder(o, p)
    PROVE  /\ o # << >> => /\ InOrder(Tail(o), p)
                           /\ \A g \in Elems(Tail(o)) \cup Elems(p) : Follows(Head(o), g)
           /\ p # << >> => InOrder(o, Tail(p)) /\ InOrder(Append(o, Head(p)), Tail(p))
           /\ InOrder(o, << >>) /\ InOrder(<< >>, p)
<1>1. ASSUME o # << >>
      PROVE  /\ InOrder(Tail(o), p)
             /\ \A g \in Elems(Tail(o)) \cup Elems(p) : Follows(Head(o), g)
  <2>1. Rising(Tail(o)) /\ \A g \in Elems(Tail(o)) : Follows(Head(o), g)
      BY <1>1, RisingTail DEF InOrder
  <2>2. Elems(Tail(o)) \subseteq Elems(o) /\ Head(o) \in Elems(o)
      BY <1>1, TailElems
  <2> QED
      BY <2>1, <2>2 DEF InOrder
<1>2. ASSUME p # << >>
      PROVE  InOrder(o, Tail(p)) /\ InOrder(Append(o, Head(p)), Tail(p))
  <2>1. Rising(Tail(p)) /\ \A g \in Elems(Tail(p)) : Follows(Head(p), g)
      BY <1>2, RisingTail DEF InOrder
  <2>2. Elems(Tail(p)) \subseteq Elems(p) /\ Head(p) \in Elems(p) /\ Head(p) \in Frames
      BY <1>2, TailElems
  <2>3. Rising(Append(o, Head(p)))
      BY <2>2, RisingAppend DEF InOrder
  <2>4. Elems(Append(o, Head(p))) = Elems(o) \cup {Head(p)}
      BY <2>2, AppendElems
  <2> QED
      BY <2>1, <2>2, <2>3, <2>4 DEF InOrder
<1>3. InOrder(o, << >>) /\ InOrder(<< >>, p)
    BY NoElems DEF InOrder
<1> QED
    BY <1>1, <1>2, <1>3

----------------------------------------------------------------------------
(* What the steps of the server keep.                                      *)

\* A step of RunRemote that sends nothing: jobs, connections and what was sent stay,
\* and it takes the events of its session from the front.
Quiet ==
    /\ ServerOK'
    /\ \A r \in Runs : Elems(events'[r]) \subseteq Elems(events[r])
    /\ \A r \in Runs : res'[r] = "success" =>
         res[r] = "success" \/ \E f \in Elems(events[r]) : f.type = "success"

LEMMA ServerKeeps ==
    ASSUME RemoteInv, Quiet, UNCHANGED <<sent, hub, link, pub, out, in>>,
           UNCHANGED <<conn, waiting, entry, jobs>>
    PROVE  RemoteInv'
<1>1. WireOK' /\ AgentOK'
    BY DEF RemoteInv, WireOK, AgentOK
<1>2. ChunksInOrder' /\ ChunksSent'
    BY DEF RemoteInv, ChunksInOrder, ChunksSent, Delivered
<1>3. ChunksAreNew' /\ ChunksOnce' /\ JobsAreWhole'
  <2>1. ChunksAreNew'
      BY DEF RemoteInv, ChunksAreNew, Delivered
  <2> QED
      BY <2>1 DEF RemoteInv, ChunksOnce, JobsAreWhole, Delivered
<1>4. \A r \in Runs : Succeeded(r)' <=> Succeeded(r)
    BY DEF Succeeded
<1>5. SuccessReported'
  <2>1. \A c \in Conns : \A f \in Elems(in'[c]) : f.type = "success" => Succeeded(f.run)'
      BY DEF RemoteInv, SuccessReported, Succeeded
  <2>2. \A r \in Runs : \A f \in Elems(events'[r]) : f.type = "success" => Succeeded(r)'
      BY <1>4 DEF RemoteInv, SuccessReported, Quiet
  <2>3. \A r \in Runs : res'[r] = "success" => Succeeded(r)'
      BY <1>4 DEF RemoteInv, SuccessReported, Quiet
  <2> QED
      BY <2>1, <2>2, <2>3 DEF SuccessReported
<1> QED
    BY <1>1, <1>2, <1>5, <1>3 DEF RemoteInv, Quiet

\* What ServerOK says of one run.
LEMMA ServerRun ==
    ASSUME ServerOK, NEW r \in Runs
    PROVE  /\ rpc[r] \in Steps /\ tries[r] \in 0 .. MaxTries /\ sent[r] \in 0 .. Chunks
           /\ events[r] \in Seq(Frames)
           /\ r \in sessions <=> rpc[r] \notin {"idle", "done"}
           /\ rpc[r] = "dispatch" => tries[r] < MaxTries
           /\ rpc[r] \in {"idle", "dispatch", "await"} => sent[r] = 0
           /\ rpc[r] = "idle" => tries[r] = 0
           /\ rpc[r] = "stream" => sent[r] < Chunks
           /\ \A f \in Elems(events[r]) : f.run = r
    BY DEF ServerOK

\* One run moves on.
LEMMA RunMoves ==
    ASSUME ServerOK, NEW r \in Runs, NEW pc \in Steps,
           rpc' = [rpc EXCEPT ![r] = pc],
           res' \in [Runs -> {"none", "success", "failed", "timeout", "cancelled", "lost"}],
           tries' \in [Runs -> 0 .. MaxTries], sent' \in [Runs -> 0 .. Chunks],
           \A q \in Runs \ {r} :
               tries'[q] = tries[q] /\ sent'[q] = sent[q] /\ events'[q] = events[q],
           sessions' = IF pc = "done" THEN sessions \ {r} ELSE sessions \cup {r}, pc # "idle",
           events' \in [Runs -> Seq(Frames)],
           \A f \in Elems(events'[r]) : f.run = r,
           pc = "dispatch" => tries'[r] < MaxTries,
           pc \in {"dispatch", "await"} => sent'[r] = 0,
           pc = "stream" => sent'[r] < Chunks
    PROVE  ServerOK'
<1>1. /\ rpc' \in [Runs -> Steps] /\ rpc'[r] = pc
      /\ \A q \in Runs \ {r} : rpc'[q] = rpc[q]
    BY DEF ServerOK
<1>2. sessions' = {q \in Runs : rpc'[q] \notin {"idle", "done"}}
    BY <1>1 DEF ServerOK
<1>3. ASSUME NEW q \in Runs
      PROVE  /\ rpc'[q] = "dispatch" => tries'[q] < MaxTries
             /\ rpc'[q] \in {"idle", "dispatch", "await"} =>
                  sent'[q] = 0 /\ (rpc'[q] = "idle" => tries'[q] = 0)
             /\ rpc'[q] = "stream" => sent'[q] < Chunks
             /\ \A f \in Elems(events'[q]) : f.run = q
  <2>1. CASE q = r
      BY <1>1, <2>1
  <2>2. CASE q # r
      BY <1>1, <2>2 DEF ServerOK
  <2> QED
      BY <2>1, <2>2
<1> QED
    BY <1>1, <1>2, <1>3 DEF ServerOK

LEMMA ReturnFields ==
    ASSUME ServerOK, NEW r \in Runs,
           NEW result \in {"success", "failed", "timeout", "cancelled"},
           Return(r, result), UNCHANGED <<tries, sent>>,
           result = "success" => \E f \in Elems(events[r]) : f.type = "success"
    PROVE  Quiet
<1>1. /\ rpc' = [rpc EXCEPT ![r] = "done"] /\ res' = [res EXCEPT ![r] = result]
      /\ sessions' = sessions \ {r} /\ events' = [events EXCEPT ![r] = << >>]
    BY DEF Return
<1>2. << >> \in Seq(Frames) /\ Elems(<< >>) = {} /\ "done" \in Steps
    BY NoElems DEF Steps
<1>3. /\ res' \in [Runs -> {"none", "success", "failed", "timeout", "cancelled", "lost"}]
      /\ events' \in [Runs -> Seq(Frames)] /\ events'[r] = << >>
      /\ \A q \in Runs \ {r} : events'[q] = events[q] /\ res'[q] = res[q]
      /\ res'[r] = result
    BY <1>1, <1>2 DEF ServerOK
<1>4. ServerOK'
  <2>1. tries' \in [Runs -> 0 .. MaxTries] /\ sent' \in [Runs -> 0 .. Chunks]
      BY DEF ServerOK
  <2> QED
      BY <1>1, <1>2, <1>3, <2>1, RunMoves
<1>5. \A q \in Runs : Elems(events'[q]) \subseteq Elems(events[q])
    BY <1>2, <1>3
<1> QED
    BY <1>3, <1>4, <1>5 DEF Quiet

\* Those steps of RunRemote and of Hub.Cancel that send nothing.
LEMMA QuietCases ==
    ASSUME RemoteInv, NEW r \in Runs,
           \/ Start(r) \/ Await(r) \/ AwaitTimeout(r) \/ Wait(r)
           \/ Cancelled(r) \/ Deadline(r) \/ Cancel(r)
    PROVE  Quiet
<1>1. ServerOK
    BY DEF RemoteInv
<1>2. /\ UNCHANGED <<sent, hub, link, pub, out, in>>
      /\ UNCHANGED <<conn, waiting, entry, jobs>>
    BY DEF Start, Await, AwaitTimeout, Wait, Cancelled,
           Deadline, Cancel, wireVars, agentVars, Return
<1>3. /\ tries \in [Runs -> 0 .. MaxTries] /\ sent \in [Runs -> 0 .. Chunks]
      /\ res \in [Runs -> {"none", "success", "failed", "timeout", "cancelled", "lost"}]
      /\ events \in [Runs -> Seq(Frames)] /\ events[r] \in Seq(Frames)
      /\ MaxTries \in Nat \ {0} /\ Chunks \in Nat \ {0}
    BY <1>1 DEF RemoteInv, ServerOK, RemoteAssumption
<1>4. {"idle", "dispatch", "await", "stream", "wait", "done"} = Steps
    BY DEF Steps
<1>5. CASE Start(r)
  <2>1. /\ rpc[r] = "idle" /\ rpc' = [rpc EXCEPT ![r] = "dispatch"]
        /\ sessions' = sessions \cup {r} /\ UNCHANGED <<res, tries, events>>
      BY <1>5 DEF Start
  <2>2. tries[r] < MaxTries /\ sent[r] = 0 /\ \A f \in Elems(events[r]) : f.run = r
      BY <1>1, <1>3, <2>1, ServerRun
  <2>3. ServerOK'
      BY <1>1, <1>2, <1>3, <1>4, <2>1, <2>2, RunMoves
  <2> QED
      BY <2>1, <2>3 DEF Quiet
<1>6. CASE Await(r)
  <2>1. rpc[r] = "await" /\ events[r] # << >> /\ UNCHANGED tries
      BY <1>6 DEF Await
  <2>2. CASE Head(events[r]).type = "ack"
    <3>1. /\ rpc' = [rpc EXCEPT ![r] = "stream"] /\ events' = [events EXCEPT ![r] = Tail(@)]
          /\ UNCHANGED <<res, sessions>>
        BY <1>6, <2>2 DEF Await
    <3>2. Tail(events[r]) \in Seq(Frames) /\ Elems(Tail(events[r])) \subseteq Elems(events[r])
        BY <1>3, <2>1, TailElems
    <3>3. /\ events' \in [Runs -> Seq(Frames)] /\ events'[r] = Tail(events[r])
          /\ \A q \in Runs \ {r} : events'[q] = events[q]
        BY <1>3, <3>1, <3>2
    <3>4. sent[r] = 0 /\ 0 < Chunks /\ r \in sessions /\ \A f \in Elems(events[r]) : f.run = r
        BY <1>1, <1>3, <2>1, ServerRun
    <3>5. sessions' = sessions \cup {r} /\ \A f \in Elems(events'[r]) : f.run = r
        BY <3>1, <3>2, <3>3, <3>4
    <3>6. sent'[r] < Chunks /\ sent' = sent
        BY <1>2, <3>4
    <3>7. ServerOK'
        BY <1>1, <1>3, <1>4, <2>1, <3>1, <3>3, <3>5, <3>6, RunMoves
    <3> QED
        BY <3>1, <3>2, <3>3, <3>7 DEF Quiet
  <2>3. CASE Head(events[r]).type # "ack"
    <3>1. Return(r, "failed")
        BY <1>6, <2>3 DEF Await
    <3> QED
        BY <1>1, <1>2, <2>1, <3>1, ReturnFields
  <2> QED
      BY <2>2, <2>3
<1>7. CASE AwaitTimeout(r)
  <2>1. rpc[r] = "await" /\ UNCHANGED tries
      BY <1>7 DEF AwaitTimeout
  <2>2. CASE tries[r] < MaxTries
    <3>1. rpc' = [rpc EXCEPT ![r] = "dispatch"] /\ UNCHANGED <<res, sessions, events>>
        BY <1>7, <2>2 DEF AwaitTimeout
    <3>2. sent[r] = 0 /\ r \in sessions /\ \A f \in Elems(events[r]) : f.run = r
        BY <1>1, <2>1, ServerRun
    <3>3. ServerOK'
        BY <1>1, <1>2, <1>3, <1>4, <2>1, <2>2, <3>1, <3>2, RunMoves
    <3> QED
        BY <3>1, <3>3 DEF Quiet
  <2>3. CASE ~(tries[r] < MaxTries)
    <3>1. Return(r, "timeout")
        BY <1>7, <2>3 DEF AwaitTimeout
    <3> QED
        BY <1>1, <1>2, <2>1, <3>1, ReturnFields
  <2> QED
      BY <2>2, <2>3
<1>8. CASE Wait(r)
  <2>1. rpc[r] = "wait" /\ events[r] # << >> /\ UNCHANGED tries
      BY <1>8 DEF Wait
  <2>2. /\ Tail(events[r]) \in Seq(Frames) /\ Elems(Tail(events[r])) \subseteq Elems(events[r])
        /\ Head(events[r]) \in Elems(events[r])
      BY <1>3, <2>1, TailElems
  <2>3. CASE Head(events[r]).type \in {"success", "failed"}
    <3>1. Return(r, Head(events[r]).type)
        BY <1>8, <2>3 DEF Wait
    <3> QED
        BY <1>1, <1>2, <2>1, <2>2, <2>3, <3>1, ReturnFields
  <2>4. CASE Head(events[r]).type \notin {"success", "failed"}
    <3>1. /\ events' = [events EXCEPT ![r] = Tail(@)] /\ UNCHANGED <<rpc, res, sessions>>
        BY <1>8, <2>4 DEF Wait
    <3>2. /\ events' \in [Runs -> Seq(Frames)] /\ events'[r] = Tail(events[r])
          /\ \A q \in Runs \ {r} : events'[q] = events[q]
        BY <1>3, <2>2, <3>1
    <3>3. ServerOK'
      <4>1. \A q \in Runs : \A f \in Elems(events'[q]) : f.run = q
          BY <1>1, <2>2, <3>2 DEF ServerOK
      <4> QED
          BY <1>1, <1>2, <2>1, <3>1, <3>2, <4>1 DEF ServerOK
    <3> QED
        BY <2>2, <3>1, <3>2, <3>3 DEF Quiet
  <2> QED
      BY <2>3, <2>4
<1>9. CASE Cancelled(r)
  <2>1. Return(r, "cancelled") /\ UNCHANGED tries
      BY <1>9 DEF Cancelled
  <2> QED
      BY <1>1, <1>2, <2>1, ReturnFields
<1>10. CASE Deadline(r) \/ Cancel(r)
  <2>1. UNCHANGED <<rpc, res, tries, sent, sessions, events>>
      BY <1>10 DEF Deadline, Cancel
  <2> QED
      BY <1>1, <2>1 DEF Quiet, ServerOK
<1> QED
    BY <1>5, <1>6, <1>7, <1>8, <1>9, <1>10

LEMMA QuietStep ==
    ASSUME RemoteInv, NEW r \in Runs,
           \/ Start(r) \/ Await(r) \/ AwaitTimeout(r) \/ Wait(r)
           \/ Cancelled(r) \/ Deadline(r) \/ Cancel(r)
    PROVE  RemoteInv'
<1>1. /\ UNCHANGED <<sent, hub, link, pub, out, in>>
      /\ UNCHANGED <<conn, waiting, entry, jobs>>
    BY DEF Start, Await, AwaitTimeout, Wait, Cancelled,
           Deadline, Cancel, wireVars, agentVars, Return
<1> QED
    BY <1>1, QuietCases, ServerKeeps

----------------------------------------------------------------------------
(* Frames on their way to the agent.                                       *)

\* What the invariant says of a connection.
LEMMA WireFacts ==
    ASSUME RemoteInv, NEW c \in Conns
    PROVE  /\ out[c] \in Seq(Frames) /\ pub[c] \in Seq(Frames) /\ in[c] \in Seq(Frames)
           /\ InOrder(out[c], pub[c])
           /\ \A f \in Elems(out[c]) \cup Elems(pub[c]) :
                f \in Frames /\ (f.type = "data" => f.seq <= sent[f.run])
           /\ hub[c] = "none" => out[c] = << >> /\ pub[c] = << >>
<1>1. out[c] \in Seq(Frames) /\ pub[c] \in Seq(Frames) /\ in[c] \in Seq(Frames)
    BY DEF RemoteInv, WireOK
<1>2. \A f \in Elems(out[c]) \cup Elems(pub[c]) : f \in Frames
    BY <1>1 DEF Elems
<1> QED
    BY <1>1, <1>2 DEF RemoteInv, WireOK, ChunksInOrder, ChunksSent

\* What it says of a job, and of the agent's connection.
LEMMA JobFacts ==
    ASSUME RemoteInv, NEW k \in DOMAIN jobs
    PROVE  /\ jobs[k] \in AgentJobs /\ jobs[k].run \in Runs
           /\ jobs[k].got \in Seq(Nat) /\ jobs[k].data \in Seq(Nat)
           /\ \A s \in Delivered(k) : s \in Nat
<1>1. jobs[k] \in AgentJobs
    BY DEF RemoteInv, AgentOK
<1>2. /\ jobs[k].run \in Runs
      /\ jobs[k].got \in Seq(Nat) /\ jobs[k].data \in Seq(Nat)
    BY <1>1 DEF AgentJobs
<1>3. \A s \in Delivered(k) : s \in Nat
    BY <1>2 DEF Delivered, Elems
<1> QED
    BY <1>1, <1>2, <1>3

LEMMA ConnFacts ==
    ASSUME RemoteInv
    PROVE  conn \in 0 .. MaxConns /\ (conn # 0 => conn \in Conns)
<1>1. conn \in 0 .. MaxConns
    BY DEF RemoteInv, AgentOK
<1> QED
    BY <1>1 DEF Conns, RemoteAssumption

\* Queues that only get shorter keep what is said of their frames.
LEMMA FewerFrames ==
    ASSUME RemoteInv, UNCHANGED <<sent, jobs>>, conn' \in {0, conn},
           \A c \in Conns : InOrder(out'[c], pub'[c]),
           \A c \in Conns :
               Elems(out'[c]) \cup Elems(pub'[c]) \subseteq Elems(out[c]) \cup Elems(pub[c])
    PROVE  ChunksInOrder' /\ ChunksSent' /\ ChunksAreNew'
<1>1. ChunksInOrder'
    BY DEF ChunksInOrder
<1>2. ChunksSent'
    BY DEF RemoteInv, ChunksSent, Delivered
<1>3. ChunksAreNew'
  <2>1. conn # 0 => conn \in Conns
      BY ConnFacts
  <2> QED
      BY <2>1 DEF RemoteInv, ChunksAreNew, Delivered
<1> QED
    BY <1>1, <1>2, <1>3

\* A frame that is no chunk, or the next chunk of its run, joins some of the queues.
LEMMA OneMoreFrame ==
    ASSUME RemoteInv, UNCHANGED <<conn, jobs>>, NEW f \in Frames,
           \A c \in Conns :
               \/ out'[c] = out[c] /\ pub'[c] = pub[c]
               \/ out'[c] = out[c] /\ pub'[c] = Append(pub[c], f)
               \/ f.type # "data" /\ out'[c] = Append(out[c], f) /\ pub'[c] = pub[c],
           \/ f.type # "data" /\ sent' = sent
           \/ f.seq = sent[f.run] + 1 /\ sent' = [sent EXCEPT ![f.run] = f.seq]
    PROVE  ChunksInOrder' /\ ChunksSent' /\ ChunksAreNew'
<1>1. sent \in [Runs -> 0 .. Chunks] /\ f.run \in Runs /\ f.seq \in Nat
      /\ Chunks \in Nat
    BY DEF RemoteInv, ServerOK, Frames, RemoteAssumption
<1>2. \A r \in Runs : sent[r] \in Nat /\ sent'[r] \in Nat /\ sent[r] <= sent'[r]
    BY <1>1
<1>3. f.type = "data" => sent[f.run] < f.seq /\ f.seq = sent'[f.run]
    BY <1>1, <1>2
<1>4. ASSUME NEW c \in Conns
      PROVE  /\ \A g \in Elems(out[c]) \cup Elems(pub[c]) : Follows(g, f)
             /\ Elems(out'[c]) \cup Elems(pub'[c]) \subseteq
                  Elems(out[c]) \cup Elems(pub[c]) \cup {f}
  <2>1. ASSUME NEW g \in Elems(out[c]) \cup Elems(pub[c]) PROVE Follows(g, f)
    <3>1. g \in Frames /\ (g.type = "data" => g.seq <= sent[g.run])
        BY WireFacts
    <3>2. g.seq \in Nat /\ g.run \in Runs
        BY <3>1 DEF Frames
    <3> QED
        BY <1>1, <1>2, <1>3, <3>1, <3>2 DEF Follows
  <2>2. /\ Elems(Append(out[c], f)) = Elems(out[c]) \cup {f}
        /\ Elems(Append(pub[c], f)) = Elems(pub[c]) \cup {f}
      BY WireFacts, AppendElems
  <2> QED
      BY <2>1, <2>2
<1>5. ChunksInOrder'
  <2>1. ASSUME NEW c \in Conns PROVE InOrder(out'[c], pub'[c])
    <3>1. out[c] \in Seq(Frames) /\ pub[c] \in Seq(Frames) /\ InOrder(out[c], pub[c])
        BY WireFacts
    <3>2. InOrder(out[c], Append(pub[c], f))
        BY <1>4, <3>1, InOrderAppend
    <3>3. f.type # "data" => InOrder(Append(out[c], f), pub[c])
        BY <3>1, InOrderAppend
    <3> QED
        BY <3>1, <3>2, <3>3
  <2> QED
      BY <2>1 DEF ChunksInOrder
<1>6. ChunksSent'
  <2>1. ASSUME NEW c \in Conns, NEW g \in Elems(out'[c]) \cup Elems(pub'[c]), g.type = "data"
        PROVE  g.seq <= sent'[g.run]
    <3>1. CASE g = f
        BY <1>1, <1>2, <1>3, <2>1, <3>1
    <3>2. CASE g # f
      <4>1. g \in Frames /\ g.seq <= sent[g.run]
          BY <1>4, <2>1, <3>2, WireFacts
      <4>2. g.seq \in Nat /\ g.run \in Runs
          BY <4>1 DEF Frames
      <4> QED
          BY <1>2, <4>1, <4>2
    <3> QED
        BY <3>1, <3>2
  <2>2. ASSUME NEW k \in DOMAIN jobs, NEW s \in Delivered(k) PROVE s <= sent'[jobs[k].run]
    <3>1. s <= sent[jobs[k].run] /\ s \in Nat /\ jobs[k].run \in Runs
        BY JobFacts DEF RemoteInv, ChunksSent
    <3> QED
        BY <1>2, <3>1
  <2> QED
      BY <2>1, <2>2 DEF ChunksSent, Delivered
<1>7. ChunksAreNew'
  <2> SUFFICES ASSUME conn # 0, NEW k \in DOMAIN jobs, NEW s \in Delivered(k),
                      NEW g \in Elems(out'[conn]) \cup Elems(pub'[conn]),
                      g.type = "data", g.run = jobs[k].run
               PROVE  s < g.seq
      BY DEF ChunksAreNew, Delivered
  <2>1. conn \in Conns
      BY ConnFacts
  <2>2. CASE g = f
    <3>1. s <= sent[jobs[k].run] /\ s \in Nat
        BY JobFacts DEF RemoteInv, ChunksSent
    <3> QED
        BY <1>1, <1>2, <1>3, <2>2, <3>1
  <2>3. CASE g # f
      BY <1>4, <2>1, <2>3 DEF RemoteInv, ChunksAreNew
  <2> QED
      BY <2>2, <2>3
<1> QED
    BY <1>5, <1>6, <1>7

\* Steps that leave the agent alone, or what is reported.
LEMMA AgentKeeps ==
    ASSUME RemoteInv, UNCHANGED <<conn, waiting, entry, jobs>>
    PROVE  /\ AgentOK' /\ ChunksOnce' /\ JobsAreWhole'
           /\ \A r \in Runs : Succeeded(r)' <=> Succeeded(r)
<1>1. AgentOK'
    BY DEF RemoteInv, AgentOK
<1>2. ChunksOnce' /\ JobsAreWhole'
    BY DEF RemoteInv, ChunksOnce, JobsAreWhole, Delivered
<1>3. \A r \in Runs : Succeeded(r)' <=> Succeeded(r)
    BY DEF Succeeded
<1> QED
    BY <1>1, <1>2, <1>3

LEMMA ReportsKeep ==
    ASSUME RemoteInv, UNCHANGED <<in, events, res, jobs>>
    PROVE  SuccessReported'
<1>1. \A r : Succeeded(r)' <=> Succeeded(r)
    BY DEF Succeeded
<1> QED
    BY <1>1 DEF RemoteInv, SuccessReported

\* The job frame and the chunks go to every connection that is subscribed.
LEMMA Published ==
    ASSUME RemoteInv, NEW f \in Frames, Publish(f), UNCHANGED <<hub, link, out, in>>
    PROVE  /\ WireOK'
           /\ \A c \in Conns :
                out'[c] = out[c] /\ (pub'[c] = pub[c] \/ pub'[c] = Append(pub[c], f))
<1>1. ASSUME NEW c \in Conns
      PROVE  /\ pub'[c] \in Seq(Frames)
             /\ pub'[c] = pub[c] \/ (hub[c] # "none" /\ pub'[c] = Append(pub[c], f))
  <2>1. pub[c] \in Seq(Frames) /\ Append(pub[c], f) \in Seq(Frames)
      BY WireFacts, AppendElems
  <2> QED
      BY <2>1 DEF Publish, Subscribed
<1>2. pub' \in [Conns -> Seq(Frames)]
    BY <1>1 DEF Publish
<1>3. WireOK'
    BY <1>1, <1>2 DEF RemoteInv, WireOK
<1> QED
    BY <1>1, <1>3

LEMMA DispatchStep ==
    ASSUME RemoteInv, NEW r \in Runs, Dispatch(r)
    PROVE  RemoteInv'
<1> DEFINE f == Frame("job", r, 0)
<1>1. /\ rpc[r] = "dispatch" /\ Publish(f) /\ tries' = [tries EXCEPT ![r] = @ + 1]
      /\ rpc' = [rpc EXCEPT ![r] = "await"]
      /\ UNCHANGED <<res, sent, sessions, events>>
      /\ UNCHANGED <<hub, link, out, in>> /\ UNCHANGED <<conn, waiting, entry, jobs>>
    BY DEF Dispatch, agentVars
<1>2. f \in Frames /\ f.type # "data"
    BY DEF Frame, Frames
<1>3. ServerOK'
  <2>1. /\ ServerOK /\ r \in sessions /\ tries[r] < MaxTries
        /\ tries[r] \in 0 .. MaxTries /\ sent[r] = 0
        /\ (\A g \in Elems(events[r]) : g.run = r) /\ MaxTries \in Nat
      BY <1>1, ServerRun DEF RemoteInv, RemoteAssumption
  <2>2. /\ tries' \in [Runs -> 0 .. MaxTries]
        /\ \A q \in Runs \ {r} : tries'[q] = tries[q]
      BY <1>1, <2>1 DEF ServerOK
  <2>3. "await" \in Steps /\ sessions' = sessions \cup {r}
      BY <1>1, <2>1 DEF Steps
  <2>4. /\ res' \in [Runs -> {"none", "success", "failed", "timeout", "cancelled", "lost"}]
        /\ sent' \in [Runs -> 0 .. Chunks] /\ events' \in [Runs -> Seq(Frames)]
      BY <1>1, <2>1 DEF ServerOK
  <2> QED
      BY <1>1, <2>1, <2>2, <2>3, <2>4, RunMoves
<1>4. /\ WireOK'
      /\ \A c \in Conns :
           out'[c] = out[c] /\ (pub'[c] = pub[c] \/ pub'[c] = Append(pub[c], f))
    BY <1>1, <1>2, Published
<1>5. ChunksInOrder' /\ ChunksSent' /\ ChunksAreNew'
    BY <1>1, <1>2, <1>4, OneMoreFrame
<1> QED
    BY <1>1, <1>3, <1>4, <1>5, AgentKeeps, ReportsKeep DEF RemoteInv

LEMMA StreamStep ==
    ASSUME RemoteInv, NEW r \in Runs, Stream(r)
    PROVE  RemoteInv'
<1> DEFINE f == Frame("data", r, sent[r] + 1)
<1>1. /\ rpc[r] = "stream" /\ Publish(f) /\ sent' = [sent EXCEPT ![r] = @ + 1]
      /\ rpc' = IF sent'[r] = Chunks THEN [rpc EXCEPT ![r] = "wait"] ELSE rpc
      /\ UNCHANGED <<res, tries, sessions, events>>
      /\ UNCHANGED <<hub, link, out, in>> /\ UNCHANGED <<conn, waiting, entry, jobs>>
    BY DEF Stream, agentVars
<1>2. /\ ServerOK /\ r \in sessions /\ sent[r] < Chunks /\ sent[r] \in 0 .. Chunks
      /\ (\A g \in Elems(events[r]) : g.run = r) /\ Chunks \in Nat
    BY <1>1, ServerRun DEF RemoteInv, RemoteAssumption
<1>3. f \in Frames /\ f.run = r /\ f.seq = sent[r] + 1 /\ f.type = "data"
    BY <1>2 DEF Frame, Frames
<1>4. /\ sent' \in [Runs -> 0 .. Chunks] /\ sent'[r] = sent[r] + 1
      /\ \A q \in Runs \ {r} : sent'[q] = sent[q]
    BY <1>1, <1>2 DEF ServerOK
<1>5. ServerOK'
  <2>1. /\ "wait" \in Steps /\ "stream" \in Steps
        /\ sessions' = sessions \cup {r} /\ rpc = [rpc EXCEPT ![r] = "stream"]
      BY <1>1, <1>2 DEF Steps, ServerOK
  <2>2. /\ res' \in [Runs -> {"none", "success", "failed", "timeout", "cancelled", "lost"}]
        /\ tries' \in [Runs -> 0 .. MaxTries] /\ events' \in [Runs -> Seq(Frames)]
      BY <1>1, <1>2 DEF ServerOK
  <2>3. CASE sent'[r] = Chunks
    <3>1. rpc' = [rpc EXCEPT ![r] = "wait"]
        BY <1>1, <2>3
    <3> QED
        BY <1>1, <1>2, <1>4, <2>1, <2>2, <3>1, RunMoves
  <2>4. CASE sent'[r] # Chunks
    <3>1. rpc' = [rpc EXCEPT ![r] = "stream"] /\ sent'[r] < Chunks
        BY <1>1, <1>2, <1>4, <2>1, <2>4
    <3> QED
        BY <1>1, <1>2, <1>4, <2>1, <2>2, <3>1, RunMoves
  <2> QED
      BY <2>3, <2>4
<1>6. /\ WireOK'
      /\ \A c \in Conns :
           out'[c] = out[c] /\ (pub'[c] = pub[c] \/ pub'[c] = Append(pub[c], f))
    BY <1>1, <1>3, Published
<1>7. ChunksInOrder' /\ ChunksSent' /\ ChunksAreNew'
  <2>1. sent' = [sent EXCEPT ![f.run] = f.seq] /\ f.seq = sent[f.run] + 1
      BY <1>1, <1>3
  <2> QED
      BY <1>1, <1>3, <1>6, <2>1, OneMoreFrame
<1> QED
    BY <1>1, <1>5, <1>6, <1>7, AgentKeeps, ReportsKeep DEF RemoteInv

LEMMA CancelCastStep ==
    ASSUME RemoteInv, NEW r \in Runs, CancelCast(r)
    PROVE  RemoteInv'
<1> DEFINE f == Frame("cancel", r, 0)
<1>1. /\ \/ out' = [c \in Conns |-> IF hub[c] = "live" THEN Append(out[c], f) ELSE out[c]]
         \/ out' = out
      /\ UNCHANGED <<rpc, res, tries, sent, sessions, events>>
      /\ UNCHANGED <<hub, link, pub, in>> /\ UNCHANGED <<conn, waiting, entry, jobs>>
    BY DEF CancelCast, agentVars
<1>2. f \in Frames /\ f.type # "data"
    BY DEF Frame, Frames
<1>3. ServerOK'
    BY <1>1 DEF RemoteInv, ServerOK
<1>4. ASSUME NEW c \in Conns
      PROVE  /\ out'[c] \in Seq(Frames) /\ pub'[c] = pub[c]
             /\ out'[c] = out[c] \/ (hub[c] # "none" /\ out'[c] = Append(out[c], f))
  <2>1. out[c] \in Seq(Frames) /\ Append(out[c], f) \in Seq(Frames)
      BY <1>2, WireFacts, AppendElems
  <2> QED
      BY <1>1, <2>1
<1>5. WireOK'
  <2>1. out' \in [Conns -> Seq(Frames)]
      BY <1>1, <1>4 DEF RemoteInv, WireOK
  <2> QED
      BY <1>1, <1>4, <2>1 DEF RemoteInv, WireOK
<1>6. ChunksInOrder' /\ ChunksSent' /\ ChunksAreNew'
    BY <1>1, <1>2, <1>4, OneMoreFrame
<1> QED
    BY <1>1, <1>3, <1>5, <1>6, AgentKeeps, ReportsKeep DEF RemoteInv

----------------------------------------------------------------------------
(* The connections.                                                        *)

\* Steps of the connections: RunRemote and the agent's jobs stay.
LEMMA HubKeeps ==
    ASSUME RemoteInv, WireOK', UNCHANGED <<rpc, res, tries, sent, sessions, events>>,
           UNCHANGED <<waiting, entry, jobs>>, conn' = conn,
           \A c \in Conns : InOrder(out'[c], pub'[c]),
           \A c \in Conns :
               Elems(out'[c]) \cup Elems(pub'[c]) \subseteq Elems(out[c]) \cup Elems(pub[c]),
           \A c \in Conns : Elems(in'[c]) \subseteq Elems(in[c])
    PROVE  RemoteInv'
<1>1. ServerOK'
    BY DEF RemoteInv, ServerOK
<1>2. ChunksInOrder' /\ ChunksSent' /\ ChunksAreNew'
    BY FewerFrames
<1>3. SuccessReported'
  <2>1. \A r : Succeeded(r)' <=> Succeeded(r)
      BY DEF Succeeded
  <2> QED
      BY <2>1 DEF RemoteInv, SuccessReported
<1> QED
    BY <1>1, <1>2, <1>3, AgentKeeps DEF RemoteInv

LEMMA PumpStep ==
    ASSUME RemoteInv, NEW c \in Conns, Pump(c)
    PROVE  RemoteInv'
<1>1. /\ pub[c] # << >> /\ hub[c] = "live" /\ pub' = [pub EXCEPT ![c] = Tail(@)]
      /\ out' = [out EXCEPT ![c] = Append(@, Head(pub[c]))] \/ out' = out
      /\ UNCHANGED <<rpc, res, tries, sent, sessions, events>>
      /\ UNCHANGED <<hub, link, in>> /\ UNCHANGED <<conn, waiting, entry, jobs>>
    BY DEF Pump, serverVars, agentVars
<1>2. out[c] \in Seq(Frames) /\ pub[c] \in Seq(Frames) /\ InOrder(out[c], pub[c])
    BY WireFacts
<1>3. /\ Tail(pub[c]) \in Seq(Frames) /\ Head(pub[c]) \in Frames
      /\ Elems(pub[c]) = Elems(Tail(pub[c])) \cup {Head(pub[c])}
    BY <1>1, <1>2, TailElems
<1>4. /\ Append(out[c], Head(pub[c])) \in Seq(Frames)
      /\ Elems(Append(out[c], Head(pub[c]))) = Elems(out[c]) \cup {Head(pub[c])}
    BY <1>2, <1>3, AppendElems
<1>5. InOrder(out[c], Tail(pub[c])) /\ InOrder(Append(out[c], Head(pub[c])), Tail(pub[c]))
    BY <1>1, <1>2, InOrderTail
<1>6. WireOK'
    BY <1>1, <1>3, <1>4 DEF RemoteInv, WireOK
<1>7. ASSUME NEW d \in Conns
      PROVE  /\ InOrder(out'[d], pub'[d])
             /\ Elems(out'[d]) \cup Elems(pub'[d]) \subseteq Elems(out[d]) \cup Elems(pub[d])
  <2>1. CASE d = c
    <3>1. /\ pub'[c] = Tail(pub[c])
          /\ out'[c] = out[c] \/ out'[c] = Append(out[c], Head(pub[c]))
        BY <1>1 DEF RemoteInv, WireOK
    <3> QED
        BY <1>3, <1>4, <1>5, <2>1, <3>1
  <2>2. CASE d # c
    <3>1. out'[d] = out[d] /\ pub'[d] = pub[d]
        BY <1>1, <2>2 DEF RemoteInv, WireOK
    <3> QED
        BY <3>1, WireFacts
  <2> QED
      BY <2>1, <2>2
<1> QED
    BY <1>1, <1>6, <1>7, HubKeeps

LEMMA TeardownStep ==
    ASSUME RemoteInv, NEW c \in Conns,
           Teardown(c) \/ LinkLost(c) \/ Heartbeat(c)
    PROVE  RemoteInv'
<1>1. /\ hub' \in {hub, [hub EXCEPT ![c] = "gone"]} /\ link' \in {link, [link EXCEPT ![c] = "down"]}
      /\ pub' \in {pub, [pub EXCEPT ![c] = << >>]} /\ in' \in {in, [in EXCEPT ![c] = << >>]}
      /\ hub' = hub \/ hub[c] # "none"
      /\ out' = out
      /\ UNCHANGED <<rpc, res, tries, sent, sessions, events>>
      /\ UNCHANGED <<conn, waiting, entry, jobs>>
    BY DEF Teardown, LinkLost, Heartbeat, serverVars, wireVars,
           agentVars, Subscribed
<1>2. << >> \in Seq(Frames) /\ Elems(<< >>) = {}
    BY NoElems
<1>3. \A d \in Conns : /\ pub'[d] = pub[d] \/ pub'[d] = << >>
                       /\ in'[d] = in[d] \/ in'[d] = << >>
    BY <1>1 DEF RemoteInv, WireOK
<1>4. WireOK'
  <2>1. /\ hub' \in [Conns -> {"none", "live", "kicked", "gone"}]
        /\ link' \in [Conns -> {"none", "up", "down"}]
    <3>1. hub \in [Conns -> {"none", "live", "kicked", "gone"}]
        BY DEF RemoteInv, WireOK
    <3>2. link \in [Conns -> {"none", "up", "down"}]
        BY DEF RemoteInv, WireOK
    <3>3. [hub EXCEPT ![c] = "gone"] \in [Conns -> {"none", "live", "kicked", "gone"}]
        BY <3>1
    <3>4. [link EXCEPT ![c] = "down"] \in [Conns -> {"none", "up", "down"}]
        BY <3>2
    <3> QED
        BY <1>1, <3>1, <3>2, <3>3, <3>4
  <2>2. pub' \in [Conns -> Seq(Frames)] /\ in' \in [Conns -> Seq(Frames)]
    <3>1. pub \in [Conns -> Seq(Frames)] /\ in \in [Conns -> Seq(Frames)]
        BY DEF RemoteInv, WireOK
    <3>2. /\ [pub EXCEPT ![c] = << >>] \in [Conns -> Seq(Frames)]
          /\ [in EXCEPT ![c] = << >>] \in [Conns -> Seq(Frames)]
        BY <1>2, <3>1
    <3> QED
        BY <1>1, <3>1, <3>2
  <2>3. ASSUME NEW d \in Conns, hub'[d] = "none"
        PROVE  pub'[d] = << >> /\ out'[d] = << >>
    <3>1. hub \in [Conns -> {"none", "live", "kicked", "gone"}]
        BY DEF RemoteInv, WireOK
    <3>2. hub[d] = "none"
        BY <1>1, <2>3, <3>1
    <3> QED
        BY <1>1, <1>3, <3>2 DEF RemoteInv, WireOK
  <2>4. out' \in [Conns -> Seq(Frames)]
      BY <1>1 DEF RemoteInv, WireOK
  <2> QED
      BY <2>1, <2>2, <2>3, <2>4 DEF WireOK
<1>5. ASSUME NEW d \in Conns
      PROVE  /\ InOrder(out'[d], pub'[d])
             /\ Elems(out'[d]) \cup Elems(pub'[d]) \subseteq Elems(out[d]) \cup Elems(pub[d])
             /\ Elems(in'[d]) \subseteq Elems(in[d])
    BY <1>1, <1>2, <1>3, WireFacts, InOrderTail
<1> QED
    BY <1>1, <1>4, <1>5, HubKeeps

\* A new connection has no frames yet.
LEMMA ConnectStep ==
    ASSUME RemoteInv, NEW c \in Conns, Connect(c)
    PROVE  RemoteInv'
<1>1. /\ hub[c] = "none" /\ conn = 0 /\ conn' = c
      /\ hub' = [d \in Conns |-> IF d = c THEN "live"
                                        ELSE IF hub[d] = "live" THEN "kicked" ELSE hub[d]]
      /\ link' = [link EXCEPT ![c] = "up"]
      /\ UNCHANGED <<rpc, res, tries, sent, sessions, events>>
      /\ UNCHANGED <<pub, out, in, waiting, entry, jobs>>
    BY DEF Connect, serverVars
<1>2. ServerOK'
    BY <1>1 DEF RemoteInv, ServerOK
<1>3. WireOK'
    BY <1>1 DEF RemoteInv, WireOK
<1>4. AgentOK'
    BY <1>1 DEF RemoteInv, AgentOK, Conns, RemoteAssumption
<1>5. ChunksInOrder' /\ ChunksSent' /\ ChunksOnce' /\ JobsAreWhole'
  <2>1. ChunksInOrder' /\ ChunksSent'
      BY <1>1 DEF RemoteInv, ChunksInOrder, ChunksSent, Delivered
  <2>2. ChunksOnce' /\ JobsAreWhole'
      BY <1>1 DEF RemoteInv, ChunksOnce, JobsAreWhole, Delivered
  <2> QED
      BY <2>1, <2>2
<1>6. ChunksAreNew'
  <2>1. Elems(out'[c]) = {} /\ Elems(pub'[c]) = {}
      BY <1>1, WireFacts, NoElems
  <2> QED
      BY <1>1, <2>1 DEF ChunksAreNew
<1> QED
    BY <1>1, <1>2, <1>3, <1>4, <1>5, <1>6, ReportsKeep DEF RemoteInv

\* What the hub reads goes to the session of the run, or nowhere.
LEMMA HubReadStep ==
    ASSUME RemoteInv, NEW c \in Conns, HubRead(c)
    PROVE  RemoteInv'
<1> DEFINE f == Head(in[c])
<1>1. /\ in[c] # << >> /\ in' = [in EXCEPT ![c] = Tail(@)]
      /\ events' = events \/ events' = [events EXCEPT ![f.run] = Append(@, f)]
      /\ UNCHANGED <<rpc, res, tries, sent, sessions>>
      /\ UNCHANGED <<hub, link, pub, out>> /\ UNCHANGED <<conn, waiting, entry, jobs>>
    BY DEF HubRead, agentVars
<1>2. in[c] \in Seq(Frames)
    BY WireFacts
<1>3. /\ f \in Frames /\ f \in Elems(in[c]) /\ f.run \in Runs
      /\ Tail(in[c]) \in Seq(Frames) /\ Elems(Tail(in[c])) \subseteq Elems(in[c])
  <2>1. /\ f \in Frames /\ f \in Elems(in[c])
        /\ Tail(in[c]) \in Seq(Frames) /\ Elems(Tail(in[c])) \subseteq Elems(in[c])
      BY <1>1, <1>2, TailElems
  <2> QED
      BY <2>1 DEF Frames
<1> HIDE DEF f
<1>4. events \in [Runs -> Seq(Frames)]
    BY DEF RemoteInv, ServerOK
<1>5. /\ Append(events[f.run], f) \in Seq(Frames)
      /\ Elems(Append(events[f.run], f)) = Elems(events[f.run]) \cup {f}
    BY <1>3, <1>4, AppendElems
<1>6. /\ events' \in [Runs -> Seq(Frames)]
      /\ \A r \in Runs : \A g \in Elems(events'[r]) :
           g \in Elems(events[r]) \/ (g = f /\ r = f.run)
  <2>1. CASE events' = events
      BY <1>4, <2>1
  <2>2. CASE events' = [events EXCEPT ![f.run] = Append(@, f)]
    <3>1. events' \in [Runs -> Seq(Frames)]
        BY <1>3, <1>4, <1>5, <2>2
    <3>2. /\ events'[f.run] = Append(events[f.run], f)
          /\ \A r \in Runs \ {f.run} : events'[r] = events[r]
        BY <1>3, <1>4, <2>2
    <3> QED
        BY <1>5, <3>1, <3>2
  <2> QED
      BY <1>1, <2>1, <2>2
<1>7. ServerOK'
    BY <1>1, <1>6 DEF RemoteInv, ServerOK
<1>8. WireOK'
    BY <1>1, <1>3 DEF RemoteInv, WireOK
<1>9. ChunksInOrder' /\ ChunksSent' /\ ChunksAreNew'
    BY <1>1, WireFacts, FewerFrames
<1>10. SuccessReported'
  <2>1. \A r : Succeeded(r)' <=> Succeeded(r)
      BY <1>1 DEF Succeeded
  <2>2. \A d \in Conns : Elems(in'[d]) \subseteq Elems(in[d])
      BY <1>1, <1>3 DEF RemoteInv, WireOK
  <2>3. f.type = "success" => Succeeded(f.run)
      BY <1>3 DEF RemoteInv, SuccessReported
  <2>4. \A d \in Conns : \A g \in Elems(in'[d]) : g.type = "success" => Succeeded(g.run)'
      BY <2>1, <2>2 DEF RemoteInv, SuccessReported
  <2>5. \A r \in Runs : \A g \in Elems(events'[r]) : g.type = "success" => Succeeded(r)'
      BY <1>6, <2>1, <2>3 DEF RemoteInv, SuccessReported
  <2>6. \A r \in Runs : res'[r] = "success" => Succeeded(r)'
      BY <1>1, <2>1 DEF RemoteInv, SuccessReported
  <2> QED
      BY <2>4, <2>5, <2>6 DEF SuccessReported
<1> QED
    BY <1>1, <1>7, <1>8, <1>9, <1>10, AgentKeeps DEF RemoteInv

\* The process dies: sessions and connections go, what is on the wire to the agent stays.
LEMMA RemoteRestart ==
    ASSUME RemoteInv, Restart, out' = out
    PROVE  RemoteInv'
<1>1. /\ rpc' = [r \in Runs |-> IF r \in sessions THEN "done" ELSE rpc[r]]
      /\ res' = [r \in Runs |-> IF r \in sessions THEN "lost" ELSE res[r]]
      /\ sessions' = {} /\ events' = [r \in Runs |-> << >>]
      /\ hub' = [c \in Conns |-> IF hub[c] = "none" THEN "none" ELSE "gone"]
      /\ link' = [c \in Conns |-> IF link[c] = "up" THEN "down" ELSE link[c]]
      /\ pub' = [c \in Conns |-> << >>] /\ in' = [c \in Conns |-> << >>]
      /\ UNCHANGED <<tries, sent, conn, waiting, entry, jobs>>
    BY DEF Restart, agentVars
<1>2. << >> \in Seq(Frames) /\ Elems(<< >>) = {}
    BY NoElems
<1>3. ServerOK'
    BY <1>1, <1>2 DEF RemoteInv, ServerOK, Steps
<1>4. WireOK'
    BY <1>1, <1>2 DEF RemoteInv, WireOK
<1>5. ChunksInOrder' /\ ChunksSent' /\ ChunksAreNew'
  <2>1. \A c \in Conns : InOrder(out'[c], pub'[c])
      BY <1>1, WireFacts, InOrderTail
  <2>2. \A c \in Conns :
          Elems(out'[c]) \cup Elems(pub'[c]) \subseteq Elems(out[c]) \cup Elems(pub[c])
      BY <1>1, <1>2
  <2> QED
      BY <1>1, <2>1, <2>2, FewerFrames
<1>6. SuccessReported'
  <2>1. \A r : Succeeded(r)' <=> Succeeded(r)
      BY <1>1 DEF Succeeded
  <2>2. \A r \in Runs : res'[r] = "success" => res[r] = "success"
      BY <1>1
  <2> QED
      BY <1>1, <1>2, <2>1, <2>2 DEF RemoteInv, SuccessReported
<1> QED
    BY <1>1, <1>3, <1>4, <1>5, <1>6, AgentKeeps DEF RemoteInv

----------------------------------------------------------------------------
(* The agent.                                                              *)

\* The read loop takes the first frame of its connection.
LEMMA NextFrameFacts ==
    ASSUME RemoteInv, conn # 0, out[conn] # << >>,
           out' = [out EXCEPT ![conn] = Tail(@)]
    PROVE  /\ conn \in Conns /\ out[conn] # << >>
           /\ Head(out[conn]) \in Frames /\ Head(out[conn]) \in Elems(out[conn])
           /\ Head(out[conn]).run \in Runs
           /\ Head(out[conn]).seq \in Nat
           /\ out' \in [Conns -> Seq(Frames)]
           /\ \A c \in Conns : /\ InOrder(out'[c], pub[c])
                               /\ Elems(out'[c]) \subseteq Elems(out[c])
                               /\ hub[c] = "none" => out'[c] = << >>
           /\ \A g \in Elems(out'[conn]) \cup Elems(pub[conn]) : Follows(Head(out[conn]), g)
<1>1. /\ conn \in Conns /\ out[conn] # << >>
      /\ out' = [out EXCEPT ![conn] = Tail(@)]
    BY ConnFacts
<1>2. out[conn] \in Seq(Frames) /\ pub[conn] \in Seq(Frames) /\ InOrder(out[conn], pub[conn])
    BY <1>1, WireFacts
<1>3. /\ Tail(out[conn]) \in Seq(Frames) /\ Elems(Tail(out[conn])) \subseteq Elems(out[conn])
      /\ Head(out[conn]) \in Frames /\ Head(out[conn]) \in Elems(out[conn])
    BY <1>1, <1>2, TailElems
<1>4. Head(out[conn]).run \in Runs /\ Head(out[conn]).seq \in Nat
    BY <1>3 DEF Frames
<1>5. /\ InOrder(Tail(out[conn]), pub[conn])
      /\ \A g \in Elems(Tail(out[conn])) \cup Elems(pub[conn]) : Follows(Head(out[conn]), g)
    BY <1>1, <1>2, InOrderTail
<1>6. out \in [Conns -> Seq(Frames)]
    BY DEF RemoteInv, WireOK
<1>7. /\ out' \in [Conns -> Seq(Frames)] /\ out'[conn] = Tail(out[conn])
      /\ \A c \in Conns \ {conn} : out'[c] = out[c]
    BY <1>1, <1>3, <1>6
<1>8. ASSUME NEW c \in Conns
      PROVE  /\ InOrder(out'[c], pub[c]) /\ Elems(out'[c]) \subseteq Elems(out[c])
             /\ hub[c] = "none" => out'[c] = << >>
  <2>1. CASE c = conn
      BY <1>1, <1>3, <1>5, <1>7, <2>1, WireFacts
  <2>2. CASE c # conn
      BY <1>7, <2>2, WireFacts
  <2> QED
      BY <2>1, <2>2
<1> QED
    BY <1>1, <1>3, <1>4, <1>5, <1>7, <1>8

\* A frame to the hub goes to the connection the agent has, or nowhere.
LEMMA SendFacts ==
    ASSUME RemoteInv, NEW f \in Frames, Send(f)
    PROVE  /\ in' \in [Conns -> Seq(Frames)]
           /\ \A c \in Conns : \A g \in Elems(in'[c]) : g \in Elems(in[c]) \/ g = f
<1>1. in \in [Conns -> Seq(Frames)]
    BY DEF RemoteInv, WireOK
<1>2. CASE in' = in
    BY <1>1, <1>2
<1>3. CASE conn # 0 /\ in' = [in EXCEPT ![conn] = Append(@, f)]
  <2>1. conn \in Conns
      BY <1>3, ConnFacts
  <2>2. /\ Append(in[conn], f) \in Seq(Frames)
        /\ Elems(Append(in[conn], f)) = Elems(in[conn]) \cup {f}
      BY <1>1, <2>1, AppendElems
  <2>3. /\ in' \in [Conns -> Seq(Frames)] /\ in'[conn] = Append(in[conn], f)
        /\ \A c \in Conns \ {conn} : in'[c] = in[c]
      BY <1>1, <1>3, <2>1, <2>2
  <2> QED
      BY <2>2, <2>3
<1> QED
    BY <1>2, <1>3 DEF Send

\* Chunks move within the jobs, and frames leave the queues.
LEMMA SameChunks ==
    ASSUME RemoteInv, sent' = sent, conn' \in {0, conn}, DOMAIN jobs' = DOMAIN jobs,
           \A k \in DOMAIN jobs :
               /\ jobs'[k].run = jobs[k].run
               /\ Elems(jobs'[k].got) \cup Elems(jobs'[k].data) \subseteq Delivered(k),
           \A c \in Conns : InOrder(out'[c], pub'[c]),
           \A c \in Conns :
               Elems(out'[c]) \cup Elems(pub'[c]) \subseteq Elems(out[c]) \cup Elems(pub[c])
    PROVE  ChunksInOrder' /\ ChunksSent' /\ ChunksAreNew' /\ ChunksOnce'
<1>1. \A k \in DOMAIN jobs : Delivered(k)' \subseteq Delivered(k)
    BY DEF Delivered
<1>2. ChunksInOrder'
    BY DEF ChunksInOrder
<1>3. ChunksSent'
    BY <1>1 DEF RemoteInv, ChunksSent
<1>4. ChunksAreNew'
  <2>1. conn # 0 => conn \in Conns
      BY ConnFacts
  <2> QED
      BY <1>1, <2>1 DEF RemoteInv, ChunksAreNew
<1>5. ChunksOnce'
    BY <1>1 DEF RemoteInv, ChunksOnce
<1> QED
    BY <1>2, <1>3, <1>4, <1>5

\* What was reported stays true, and what is reported is true.
LEMMA SuccessKeeps ==
    ASSUME RemoteInv, UNCHANGED <<events, res>>,
           \A r \in Runs : Succeeded(r) => Succeeded(r)',
           \A c \in Conns : \A f \in Elems(in'[c]) :
               f \in Elems(in[c]) \/ (f.type = "success" => Succeeded(f.run)')
    PROVE  SuccessReported'
<1>1. ASSUME NEW c \in Conns, NEW f \in Elems(in'[c]), f.type = "success"
      PROVE  Succeeded(f.run)'
  <2>1. CASE f \in Elems(in[c])
    <3>1. f.run \in Runs
      <4>1. in[c] \in Seq(Frames)
          BY WireFacts
      <4>2. f \in Frames
          BY <2>1, <4>1 DEF Elems
      <4> QED
          BY <4>2 DEF Frames
    <3> QED
        BY <1>1, <2>1, <3>1 DEF RemoteInv, SuccessReported
  <2> QED
      BY <1>1, <2>1
<1>2. \A r \in Runs : \A f \in Elems(events'[r]) : f.type = "success" => Succeeded(r)'
    BY DEF RemoteInv, SuccessReported
<1>3. \A r \in Runs : res'[r] = "success" => Succeeded(r)'
    BY DEF RemoteInv, SuccessReported
<1> QED
    BY <1>1, <1>2, <1>3 DEF SuccessReported

LEMMA ReadJobStep ==
    ASSUME RemoteInv, ReadJob
    PROVE  RemoteInv'
<1> DEFINE h == Head(out[conn])
           f == Frame("ack", h.run, 0)
<1>1. /\ NextFrame("job") /\ waiting' = h.run /\ Send(f)
      /\ UNCHANGED <<rpc, res, tries, sent, sessions, events>>
      /\ UNCHANGED <<hub, link, pub, conn, entry, jobs>>
    BY DEF ReadJob, serverVars
<1>2. /\ h.run \in Runs /\ out' \in [Conns -> Seq(Frames)]
      /\ \A c \in Conns : /\ InOrder(out'[c], pub[c])
                          /\ Elems(out'[c]) \subseteq Elems(out[c])
                          /\ hub[c] = "none" => out'[c] = << >>
    BY <1>1, NextFrameFacts DEF NextFrame, Arrived, Reading
<1>3. f \in Frames /\ f.type = "ack"
    BY <1>2 DEF Frame, Frames
<1>4. /\ in' \in [Conns -> Seq(Frames)]
      /\ \A c \in Conns : \A g \in Elems(in'[c]) : g \in Elems(in[c]) \/ g = f
    BY <1>1, <1>3, SendFacts
<1>5. ServerOK'
    BY <1>1 DEF RemoteInv, ServerOK
<1>6. WireOK'
    BY <1>1, <1>2, <1>4 DEF RemoteInv, WireOK
<1>7. AgentOK'
    BY <1>1, <1>2 DEF RemoteInv, AgentOK
<1>8. ChunksInOrder' /\ ChunksSent' /\ ChunksAreNew'
    BY <1>1, <1>2, FewerFrames
<1>9. ChunksOnce' /\ JobsAreWhole'
    BY <1>1 DEF RemoteInv, ChunksOnce, JobsAreWhole, Delivered
<1>10. SuccessReported'
  <2>1. \A r \in Runs : Succeeded(r) => Succeeded(r)'
      BY <1>1 DEF Succeeded
  <2> QED
      BY <1>1, <1>3, <1>4, <2>1, SuccessKeeps
<1> QED
    BY <1>5, <1>6, <1>7, <1>8, <1>9, <1>10 DEF RemoteInv

LEMMA TakeSlotStep ==
    ASSUME RemoteInv, TakeSlot
    PROVE  RemoteInv'
<1> DEFINE new == [run |-> waiting, conn |-> conn, pc |-> "recv", cancelled |-> FALSE,
                   data |-> << >>, got |-> << >>, ran |-> FALSE, outcome |-> "none",
                   drains |-> FALSE]
<1>1. /\ waiting # NoRun /\ waiting' = NoRun
      /\ jobs' = Append(jobs, new) /\ entry' = [entry EXCEPT ![waiting] = Len(jobs')]
      /\ UNCHANGED <<rpc, res, tries, sent, sessions, events>>
      /\ UNCHANGED <<hub, link, pub, out, in>> /\ conn' = conn
    BY DEF TakeSlot, serverVars, wireVars
<1>2. /\ waiting \in Runs /\ conn \in 0 .. MaxConns
      /\ jobs \in Seq(AgentJobs) /\ entry \in [Runs -> 0 .. Len(jobs)]
    BY <1>1 DEF RemoteInv, AgentOK
<1>3. new \in AgentJobs
    BY <1>2 DEF AgentJobs
<1>4. /\ jobs' \in Seq(AgentJobs) /\ Len(jobs') = Len(jobs) + 1 /\ Len(jobs) \in Nat
      /\ DOMAIN jobs = 1 .. Len(jobs) /\ DOMAIN jobs' = DOMAIN jobs \cup {Len(jobs) + 1}
      /\ jobs'[Len(jobs) + 1] = new /\ \A k \in DOMAIN jobs : jobs'[k] = jobs[k]
    BY <1>1, <1>2, <1>3, AppendElems
<1>5. /\ new.run = waiting /\ new.pc = "recv" /\ new.ran = FALSE /\ new.outcome = "none"
      /\ Elems(new.got) \cup Elems(new.data) = {}
    BY NoElems
<1> HIDE DEF new
<1>6. ServerOK' /\ WireOK'
    BY <1>1 DEF RemoteInv, ServerOK, WireOK
<1>7. AgentOK'
  <2>1. Len(jobs') \in 0 .. Len(jobs') /\ Len(jobs') # 0
      BY <1>4
  <2>2. entry \in [Runs -> 0 .. Len(jobs')]
      BY <1>2, <1>4
  <2>3. entry' \in [Runs -> 0 .. Len(jobs')]
      BY <1>1, <2>1, <2>2
  <2>4. ASSUME NEW r \in Runs, entry'[r] # 0 PROVE jobs'[entry'[r]].run = r
    <3>1. CASE r = waiting
        BY <1>1, <1>2, <1>4, <1>5, <3>1
    <3>2. CASE r # waiting
      <4>1. entry'[r] = entry[r]
          BY <1>1, <1>2, <3>2
      <4>2. entry[r] \in 0 .. Len(jobs) /\ entry[r] # 0
          BY <1>2, <2>4, <4>1
      <4>3. entry[r] \in DOMAIN jobs
          BY <1>4, <4>2
      <4> QED
          BY <1>4, <4>1, <4>2, <4>3 DEF RemoteInv, AgentOK
    <3> QED
        BY <3>1, <3>2
  <2>5. waiting' \in Runs \cup {NoRun} /\ conn' \in 0 .. MaxConns
      BY <1>1, <1>2
  <2> QED
      BY <1>4, <2>3, <2>4, <2>5 DEF AgentOK
<1>8. ASSUME NEW k \in DOMAIN jobs'
      PROVE  \/ k \in DOMAIN jobs /\ jobs'[k] = jobs[k] /\ Delivered(k)' = Delivered(k)
             \/ jobs'[k] = new /\ Delivered(k)' = {}
    BY <1>4, <1>5 DEF Delivered
<1>9. ChunksInOrder' /\ ChunksSent' /\ ChunksAreNew' /\ ChunksOnce'
  <2>1. ChunksInOrder'
      BY <1>1 DEF RemoteInv, ChunksInOrder
  <2>2. ChunksSent'
      BY <1>1, <1>8 DEF RemoteInv, ChunksSent
  <2>3. ChunksAreNew'
      BY <1>1, <1>8 DEF RemoteInv, ChunksAreNew
  <2>4. ChunksOnce'
      BY <1>8 DEF RemoteInv, ChunksOnce
  <2> QED
      BY <2>1, <2>2, <2>3, <2>4
<1>10. JobsAreWhole'
    BY <1>5, <1>8 DEF RemoteInv, JobsAreWhole
<1>11. SuccessReported'
  <2>1. \A r \in Runs : Succeeded(r) => Succeeded(r)'
      BY <1>4 DEF Succeeded
  <2> QED
      BY <1>1, <2>1, SuccessKeeps
<1> QED
    BY <1>4, <1>6, <1>7, <1>9, <1>10, <1>11 DEF RemoteInv

\* Its entries name jobs of the agent.
LEMMA EntryFacts ==
    ASSUME RemoteInv, NEW r \in Runs, entry[r] # 0
    PROVE  entry[r] \in DOMAIN jobs /\ jobs[entry[r]].run = r
<1>1. /\ jobs \in Seq(AgentJobs) /\ entry[r] \in 0 .. Len(jobs)
      /\ jobs[entry[r]].run = r
    BY DEF RemoteInv, AgentOK
<1>2. Len(jobs) \in Nat /\ DOMAIN jobs = 1 .. Len(jobs)
    BY <1>1
<1> QED
    BY <1>1, <1>2

\* The agent's jobs change, their runs do not.
LEMMA AgentMoves ==
    ASSUME RemoteInv, jobs' \in Seq(AgentJobs), DOMAIN jobs' = DOMAIN jobs,
           \A k \in DOMAIN jobs : jobs'[k].run = jobs[k].run,
           conn' \in 0 .. MaxConns, waiting' \in Runs \cup {NoRun},
           entry' \in [Runs -> Nat],
           \A r \in Runs : entry'[r] \in {0, entry[r]}
    PROVE  AgentOK'
<1>1. /\ jobs \in Seq(AgentJobs) /\ entry \in [Runs -> 0 .. Len(jobs)]
    BY DEF RemoteInv, AgentOK
<1>2. /\ Len(jobs) \in Nat /\ Len(jobs') \in Nat /\ DOMAIN jobs = 1 .. Len(jobs)
      /\ DOMAIN jobs' = 1 .. Len(jobs')
    BY <1>1
<1>3. Len(jobs') = Len(jobs)
    BY <1>2
<1>4. ASSUME NEW r \in Runs
      PROVE  entry'[r] \in 0 .. Len(jobs') /\ (entry'[r] # 0 => jobs'[entry'[r]].run = r)
  <2>1. entry[r] \in 0 .. Len(jobs)
      BY <1>1
  <2>2. CASE entry'[r] = 0
      BY <1>2, <2>2
  <2>3. CASE entry'[r] # 0
    <3>1. entry'[r] = entry[r] /\ entry[r] # 0
        BY <2>3
    <3> QED
        BY <1>3, <2>1, <3>1, EntryFacts
  <2> QED
      BY <2>2, <2>3
<1>5. entry' \in [Runs -> 0 .. Len(jobs')]
    BY <1>4
<1> QED
    BY <1>4, <1>5 DEF AgentOK

\* A job takes the chunk at the head of the queue, one of its run.
LEMMA ChunkTaken ==
    ASSUME RemoteInv, conn # 0, out[conn] # << >>, Head(out[conn]).type = "data",
           out' = [out EXCEPT ![conn] = Tail(@)],
           NEW e \in DOMAIN jobs, jobs[e].run = Head(out[conn]).run, Put(e, Head(out[conn]).seq),
           UNCHANGED <<rpc, res, tries, sent, sessions, events>>,
           UNCHANGED <<hub, link, pub, in, conn, waiting, entry>>
    PROVE  RemoteInv'
<1> DEFINE f == Head(out[conn])
<1>1. /\ jobs' = [jobs EXCEPT ![e].data = Append(@, f.seq)] /\ jobs[e].run = f.run
      /\ UNCHANGED <<rpc, res, tries, sent, sessions, events>>
      /\ UNCHANGED <<hub, link, pub, in, conn, waiting, entry>>
    BY DEF Put
<1>2. /\ conn \in Conns /\ f \in Frames /\ f \in Elems(out[conn])
      /\ f.type = "data" /\ f.run \in Runs /\ f.seq \in Nat
      /\ out' \in [Conns -> Seq(Frames)]
      /\ \A c \in Conns : /\ InOrder(out'[c], pub[c])
                          /\ Elems(out'[c]) \subseteq Elems(out[c])
                          /\ hub[c] = "none" => out'[c] = << >>
      /\ \A g \in Elems(out'[conn]) \cup Elems(pub[conn]) : Follows(f, g)
    BY NextFrameFacts
<1>3. f.seq <= sent[f.run]
    BY <1>2, WireFacts
<1> HIDE DEF f
<1>4. ServerOK'
    BY <1>1 DEF RemoteInv, ServerOK
<1>5. WireOK'
    BY <1>1, <1>2 DEF RemoteInv, WireOK
<1> DEFINE n == [jobs[e] EXCEPT !.data = Append(@, f.seq)]
<1>6. jobs \in Seq(AgentJobs) /\ jobs[e] \in AgentJobs /\ jobs[e].data \in Seq(Nat)
    BY JobFacts DEF RemoteInv, AgentOK
<1>7. /\ Append(jobs[e].data, f.seq) \in Seq(Nat)
      /\ Elems(Append(jobs[e].data, f.seq)) = Elems(jobs[e].data) \cup {f.seq}
  <2>1. f.seq \in Nat
      BY <1>2
  <2> QED
      BY ONLY <1>6, <2>1, AppendElems
<1>8. /\ n \in AgentJobs /\ n.run = jobs[e].run /\ n.pc = jobs[e].pc /\ n.ran = jobs[e].ran
      /\ n.outcome = jobs[e].outcome /\ n.got = jobs[e].got
      /\ n.data = Append(jobs[e].data, f.seq)
    BY <1>6, <1>7 DEF AgentJobs
<1>9. jobs' = [jobs EXCEPT ![e] = n]
    BY <1>1
<1> HIDE DEF n
<1>10. /\ jobs' \in Seq(AgentJobs) /\ DOMAIN jobs' = DOMAIN jobs /\ jobs'[e] = n
      /\ \A k \in DOMAIN jobs \ {e} : jobs'[k] = jobs[k]
    BY <1>6, <1>8, <1>9
<1>11. \A k \in DOMAIN jobs :
        /\ jobs'[k].run = jobs[k].run /\ jobs'[k].pc = jobs[k].pc /\ jobs'[k].ran = jobs[k].ran
        /\ jobs'[k].outcome = jobs[k].outcome /\ jobs'[k].got = jobs[k].got
    BY <1>8, <1>10
<1>12. /\ Delivered(e)' = Delivered(e) \cup {f.seq}
      /\ \A k \in DOMAIN jobs \ {e} : Delivered(k)' = Delivered(k)
    BY <1>7, <1>8, <1>10 DEF Delivered
<1>13. AgentOK'
  <2>1. /\ conn' \in 0 .. MaxConns /\ waiting' \in Runs \cup {NoRun}
        /\ entry \in [Runs -> 0 .. Len(jobs)]
      BY <1>1 DEF RemoteInv, AgentOK
  <2>2. entry' \in [Runs -> Nat] /\ \A r \in Runs : entry'[r] \in {0, entry[r]}
      BY <1>1, <2>1
  <2> QED
      BY <1>10, <1>11, <2>1, <2>2, AgentMoves
<1>14. ChunksInOrder'
    BY <1>1, <1>2 DEF ChunksInOrder
<1>15. ChunksSent'
  <2>1. \A c \in Conns :
          Elems(out'[c]) \cup Elems(pub'[c]) \subseteq Elems(out[c]) \cup Elems(pub[c])
      BY <1>1, <1>2
  <2>2. ASSUME NEW k \in DOMAIN jobs, NEW s \in Delivered(k)' PROVE s <= sent'[jobs'[k].run]
    <3>1. CASE s \in Delivered(k)
        BY <1>1, <1>11, <3>1 DEF RemoteInv, ChunksSent
    <3>2. CASE s \notin Delivered(k)
        BY <1>1, <1>3, <1>11, <1>12, <2>2, <3>2
    <3> QED
        BY <3>1, <3>2
  <2> QED
      BY <1>1, <1>10, <2>1, <2>2 DEF RemoteInv, ChunksSent
<1>16. ChunksAreNew'
  <2> SUFFICES ASSUME NEW k \in DOMAIN jobs, NEW s \in Delivered(k)',
                      NEW g \in Elems(out'[conn]) \cup Elems(pub[conn]),
                      g.type = "data", g.run = jobs[k].run
               PROVE  s < g.seq
      BY <1>1, <1>10, <1>11 DEF ChunksAreNew
  <2>1. g \in Elems(out[conn]) \cup Elems(pub[conn])
      BY <1>2
  <2>2. CASE s \in Delivered(k)
      BY <1>2, <2>1, <2>2, ConnFacts DEF RemoteInv, ChunksAreNew, Conns
  <2>3. CASE s \notin Delivered(k)
    <3>1. k = e /\ s = f.seq
        BY <1>12, <2>3
    <3> QED
        BY <1>1, <1>2, <3>1 DEF Follows
  <2> QED
      BY <2>2, <2>3
<1>17. ChunksOnce'
  <2>1. ASSUME NEW j \in DOMAIN jobs, jobs[j].run = f.run PROVE f.seq \notin Delivered(j)
    <3>1. ASSUME NEW s \in Delivered(j) PROVE s < f.seq /\ s \in Nat
        BY <1>2, <2>1, <3>1, JobFacts DEF RemoteInv, ChunksAreNew, Conns
    <3> QED
        BY <1>2, <3>1
  <2> SUFFICES ASSUME NEW j \in DOMAIN jobs, NEW k \in DOMAIN jobs, j # k,
                      jobs[j].run = jobs[k].run
               PROVE  Delivered(j)' \cap Delivered(k)' = {}
      BY <1>10, <1>11 DEF ChunksOnce
  <2>2. Delivered(j) \cap Delivered(k) = {}
      BY DEF RemoteInv, ChunksOnce
  <2> QED
      BY <1>1, <1>12, <2>1, <2>2
<1>18. JobsAreWhole'
    BY <1>10, <1>11 DEF RemoteInv, JobsAreWhole
<1>19. SuccessReported'
  <2>1. \A r \in Runs : Succeeded(r) => Succeeded(r)'
      BY <1>10, <1>11 DEF Succeeded
  <2> QED
      BY <1>1, <2>1, SuccessKeeps
<1> QED
    BY <1>4, <1>5, <1>13, <1>14, <1>15, <1>16, <1>17, <1>18, <1>19 DEF RemoteInv

LEMMA ReadDataStep ==
    ASSUME RemoteInv, ReadData
    PROVE  RemoteInv'
<1> DEFINE f == Head(out[conn])
<1>1. /\ conn # 0 /\ out[conn] # << >> /\ f.type = "data"
      /\ out' = [out EXCEPT ![conn] = Tail(@)]
      /\ IF entry[f.run] = 0 THEN jobs' = jobs ELSE Put(entry[f.run], f.seq)
      /\ UNCHANGED <<rpc, res, tries, sent, sessions, events>>
      /\ UNCHANGED <<hub, link, pub, in, conn, waiting, entry>>
    BY DEF ReadData, NextFrame, Arrived, Reading, serverVars
<1>2. /\ f.run \in Runs /\ out' \in [Conns -> Seq(Frames)]
      /\ \A c \in Conns : /\ InOrder(out'[c], pub[c])
                          /\ Elems(out'[c]) \subseteq Elems(out[c])
                          /\ hub[c] = "none" => out'[c] = << >>
    BY <1>1, NextFrameFacts
<1>3. ServerOK'
    BY <1>1 DEF RemoteInv, ServerOK
<1>4. WireOK'
    BY <1>1, <1>2 DEF RemoteInv, WireOK
<1>5. CASE entry[f.run] = 0
  <2>1. jobs' = jobs
      BY <1>1, <1>5
  <2>2. ChunksInOrder' /\ ChunksSent' /\ ChunksAreNew'
      BY <1>1, <1>2, <2>1, FewerFrames
  <2>3. AgentOK' /\ ChunksOnce' /\ JobsAreWhole'
      BY <1>1, <2>1, AgentKeeps
  <2>4. SuccessReported'
      BY <1>1, <2>1, ReportsKeep
  <2> QED
      BY <1>3, <1>4, <2>2, <2>3, <2>4 DEF RemoteInv
<1>6. CASE entry[f.run] # 0
  <2>1. entry[f.run] \in DOMAIN jobs /\ jobs[entry[f.run]].run = f.run
      BY <1>2, <1>6, EntryFacts
  <2> QED
      BY <1>1, <1>6, <2>1, ChunkTaken
<1> QED
    BY <1>5, <1>6

\* The channel has room again.
LEMMA HandOverStep ==
    ASSUME RemoteInv, HandsOver, HandOver
    PROVE  RemoteInv'
<1>1. /\ handing # 0 /\ Put(handing, Head(out[conn]).seq)
      /\ out' = [out EXCEPT ![conn] = Tail(@)]
      /\ UNCHANGED <<rpc, res, tries, sent, sessions, events>>
      /\ UNCHANGED <<hub, link, pub, in, conn, waiting, entry>>
    BY DEF HandOver, serverVars
<1>2. handing \in DOMAIN jobs
  <2>1. jobs \in Seq(AgentJobs)
      BY DEF RemoteInv, AgentOK
  <2> QED
      BY <1>1, <2>1 DEF HandsOver
<1> QED
    BY <1>1, <1>2, ChunkTaken DEF HandsOver

\* The jobs are cancelled, one of them or all of a connection.
LEMMA CancelledJobs ==
    ASSUME RemoteInv, DOMAIN jobs' = DOMAIN jobs, jobs' \in Seq(AgentJobs),
           \A k \in DOMAIN jobs : jobs'[k] \in {jobs[k], [jobs[k] EXCEPT !.cancelled = TRUE]},
           UNCHANGED <<rpc, res, tries, sent, sessions, events>>,
           UNCHANGED <<hub, link, pub, in, entry>>, conn' \in {0, conn},
           waiting' = waiting, WireOK',
           \A c \in Conns :
               InOrder(out'[c], pub[c]) /\ Elems(out'[c]) \subseteq Elems(out[c])
    PROVE  RemoteInv'
<1>1. ServerOK'
    BY DEF RemoteInv, ServerOK
<1>2. ASSUME NEW k \in DOMAIN jobs
      PROVE  /\ jobs'[k].run = jobs[k].run /\ jobs'[k].pc = jobs[k].pc
             /\ jobs'[k].ran = jobs[k].ran /\ jobs'[k].outcome = jobs[k].outcome
             /\ jobs'[k].got = jobs[k].got /\ jobs'[k].data = jobs[k].data
  <2>1. jobs[k] \in AgentJobs
      BY JobFacts
  <2> QED
      BY <2>1 DEF AgentJobs
<1>3. AgentOK'
  <2>1. /\ conn \in 0 .. MaxConns /\ waiting \in Runs \cup {NoRun}
        /\ entry \in [Runs -> 0 .. Len(jobs)] /\ 0 \in 0 .. MaxConns
      BY DEF RemoteInv, AgentOK, RemoteAssumption
  <2>2. entry' \in [Runs -> Nat] /\ \A r \in Runs : entry'[r] \in {0, entry[r]}
      BY <2>1
  <2>3. conn' \in 0 .. MaxConns /\ waiting' \in Runs \cup {NoRun}
      BY <2>1
  <2> QED
      BY <1>2, <2>2, <2>3, AgentMoves
<1>4. ChunksInOrder' /\ ChunksSent' /\ ChunksAreNew' /\ ChunksOnce'
  <2>1. \A k \in DOMAIN jobs : Elems(jobs'[k].got) \cup Elems(jobs'[k].data) \subseteq Delivered(k)
      BY <1>2 DEF Delivered
  <2> QED
      BY <1>2, <2>1, SameChunks
<1>5. JobsAreWhole'
    BY <1>2 DEF RemoteInv, JobsAreWhole
<1>6. SuccessReported'
  <2>1. \A r \in Runs : Succeeded(r) => Succeeded(r)'
      BY <1>2 DEF Succeeded
  <2> QED
      BY <2>1, SuccessKeeps
<1> QED
    BY <1>1, <1>3, <1>4, <1>5, <1>6 DEF RemoteInv

LEMMA ReadCancelStep ==
    ASSUME RemoteInv, ReadCancel
    PROVE  RemoteInv'
<1> DEFINE f == Head(out[conn])
<1>1. /\ NextFrame("cancel")
      /\ jobs' = IF entry[f.run] = 0 THEN jobs
                 ELSE [jobs EXCEPT ![entry[f.run]].cancelled = TRUE]
      /\ UNCHANGED <<rpc, res, tries, sent, sessions, events>>
      /\ UNCHANGED <<hub, link, pub, in, conn, waiting, entry>>
    BY DEF ReadCancel, serverVars
<1>2. /\ f.run \in Runs /\ out' \in [Conns -> Seq(Frames)]
      /\ \A c \in Conns : /\ InOrder(out'[c], pub[c])
                          /\ Elems(out'[c]) \subseteq Elems(out[c])
                          /\ hub[c] = "none" => out'[c] = << >>
    BY <1>1, NextFrameFacts DEF NextFrame, Arrived, Reading
<1> HIDE DEF f
<1>3. WireOK'
    BY <1>1, <1>2 DEF RemoteInv, WireOK
<1>4. /\ DOMAIN jobs' = DOMAIN jobs /\ jobs' \in Seq(AgentJobs)
      /\ \A k \in DOMAIN jobs : jobs'[k] \in {jobs[k], [jobs[k] EXCEPT !.cancelled = TRUE]}
  <2>1. jobs \in Seq(AgentJobs)
      BY DEF RemoteInv, AgentOK
  <2>2. CASE entry[f.run] = 0
      BY <1>1, <2>1, <2>2
  <2>3. ASSUME NEW e, e = entry[f.run], e # 0
        PROVE  /\ DOMAIN jobs' = DOMAIN jobs /\ jobs' \in Seq(AgentJobs)
               /\ \A k \in DOMAIN jobs :
                    jobs'[k] \in {jobs[k], [jobs[k] EXCEPT !.cancelled = TRUE]}
    <3>1. e \in DOMAIN jobs /\ jobs[e] \in AgentJobs
        BY <1>2, <2>3, EntryFacts, JobFacts
    <3> DEFINE n == [jobs[e] EXCEPT !.cancelled = TRUE]
    <3>2. n \in AgentJobs
        BY <3>1 DEF AgentJobs
    <3>3. jobs' = [jobs EXCEPT ![e] = n]
        BY <1>1, <2>3
    <3> HIDE DEF n
    <3>4. /\ jobs' \in Seq(AgentJobs) /\ DOMAIN jobs' = DOMAIN jobs /\ jobs'[e] = n
          /\ \A k \in DOMAIN jobs \ {e} : jobs'[k] = jobs[k]
        BY <2>1, <3>1, <3>2, <3>3
    <3> QED
        BY <3>4 DEF n
  <2> QED
      BY <2>2, <2>3
<1> QED
    BY <1>1, <1>2, <1>3, <1>4, CancelledJobs

\* The read fails.
LEMMA DisconnectStep ==
    ASSUME RemoteInv, Disconnect
    PROVE  RemoteInv'
<1>1. /\ conn # 0 /\ conn' = 0 /\ waiting' = waiting
      /\ jobs' = [k \in DOMAIN jobs |-> IF jobs[k].conn = conn
                                        THEN [jobs[k] EXCEPT !.cancelled = TRUE] ELSE jobs[k]]
      /\ out' = [out EXCEPT ![conn] = << >>]
      /\ UNCHANGED <<rpc, res, tries, sent, sessions, events>>
      /\ UNCHANGED <<hub, link, pub, in, entry>>
    BY DEF Disconnect, Reading, serverVars
<1>2. conn \in Conns /\ << >> \in Seq(Frames) /\ Elems(<< >>) = {}
    BY <1>1, ConnFacts, NoElems
<1>3. ASSUME NEW c \in Conns
      PROVE  /\ out'[c] \in Seq(Frames) /\ InOrder(out'[c], pub[c])
             /\ Elems(out'[c]) \subseteq Elems(out[c]) /\ (hub[c] = "none" => out'[c] = << >>)
  <2>1. out'[c] = out[c] \/ out'[c] = << >>
      BY <1>1, <1>2 DEF RemoteInv, WireOK
  <2> QED
      BY <1>2, <2>1, WireFacts, InOrderTail
<1>4. WireOK'
  <2>1. out' \in [Conns -> Seq(Frames)]
      BY <1>1, <1>2 DEF RemoteInv, WireOK
  <2> QED
      BY <1>1, <1>3, <2>1 DEF RemoteInv, WireOK
<1>5. /\ DOMAIN jobs' = DOMAIN jobs /\ jobs' \in Seq(AgentJobs)
      /\ \A k \in DOMAIN jobs : jobs'[k] \in {jobs[k], [jobs[k] EXCEPT !.cancelled = TRUE]}
  <2>1. jobs \in Seq(AgentJobs) /\ DOMAIN jobs = 1 .. Len(jobs) /\ Len(jobs) \in Nat
      BY DEF RemoteInv, AgentOK
  <2>2. ASSUME NEW k \in DOMAIN jobs
        PROVE  /\ jobs'[k] \in {jobs[k], [jobs[k] EXCEPT !.cancelled = TRUE]}
               /\ jobs'[k] \in AgentJobs
    <3>1. jobs[k] \in AgentJobs /\ [jobs[k] EXCEPT !.cancelled = TRUE] \in AgentJobs
        BY JobFacts DEF AgentJobs
    <3> QED
        BY <1>1, <3>1
  <2>3. DOMAIN jobs' = 1 .. Len(jobs) /\ jobs' = [k \in 1 .. Len(jobs) |-> jobs'[k]]
      BY <1>1, <2>1
  <2>4. jobs' \in Seq(AgentJobs)
      BY <2>1, <2>2, <2>3
  <2> QED
      BY <1>1, <2>2, <2>4
<1> QED
    BY <1>1, <1>3, <1>4, <1>5, CancelledJobs

----------------------------------------------------------------------------
(* The agent's jobs.                                                       *)

\* A job moves on: it takes no new chunk, it runs only with all of them, and what
\* it reports is what became of it.
LEMMA OneJob ==
    ASSUME RemoteInv, NEW k \in DOMAIN jobs, NEW n \in AgentJobs, jobs' = [jobs EXCEPT ![k] = n],
           n.run = jobs[k].run, Elems(n.got) \cup Elems(n.data) \subseteq Delivered(k),
           n.pc = "recv" => ~n.ran /\ n.outcome = "none",
           n.pc = "run" => n.ran /\ n.outcome = "none",
           n.outcome = "success" => n.ran,
           n.ran => n.got = [i \in 1 .. Chunks |-> i],
           jobs[k].ran /\ jobs[k].outcome = "success" => n.ran /\ n.outcome = "success",
           UNCHANGED <<rpc, res, tries, sent, sessions, events>>,
           UNCHANGED <<hub, link, pub, out, conn, waiting>>,
           \/ entry' = entry
           \/ entry' = [entry EXCEPT ![jobs[k].run] = 0],
           in' \in [Conns -> Seq(Frames)],
           \A c \in Conns : \A f \in Elems(in'[c]) :
               \/ f \in Elems(in[c])
               \/ f.type = "success" => f.run = n.run /\ n.ran /\ n.outcome = "success"
    PROVE  RemoteInv'
<1>1. ServerOK'
    BY DEF RemoteInv, ServerOK
<1>2. WireOK'
    BY DEF RemoteInv, WireOK
<1>3. /\ jobs' \in Seq(AgentJobs) /\ DOMAIN jobs' = DOMAIN jobs /\ jobs'[k] = n
      /\ \A j \in DOMAIN jobs \ {k} : jobs'[j] = jobs[j]
  <2>1. jobs \in Seq(AgentJobs)
      BY DEF RemoteInv, AgentOK
  <2> QED
      BY <2>1
<1>4. AgentOK'
  <2>1. /\ conn' \in 0 .. MaxConns /\ waiting' \in Runs \cup {NoRun}
        /\ entry \in [Runs -> 0 .. Len(jobs)]
      BY DEF RemoteInv, AgentOK
  <2>2. entry' \in [Runs -> Nat] /\ \A r \in Runs : entry'[r] \in {0, entry[r]}
    <3>1. entry \in [Runs -> Nat]
        BY <2>1
    <3>2. CASE entry' = entry
        BY <3>1, <3>2
    <3>3. CASE entry' = [entry EXCEPT ![jobs[k].run] = 0]
        BY <3>1, <3>3
    <3> QED
        BY <3>2, <3>3
  <2> QED
      BY <1>3, <2>1, <2>2, AgentMoves
<1>5. ChunksInOrder' /\ ChunksSent' /\ ChunksAreNew' /\ ChunksOnce'
  <2>1. \A j \in DOMAIN jobs :
          /\ jobs'[j].run = jobs[j].run
          /\ Elems(jobs'[j].got) \cup Elems(jobs'[j].data) \subseteq Delivered(j)
      BY <1>3 DEF Delivered
  <2>2. \A c \in Conns : InOrder(out'[c], pub'[c])
      BY WireFacts
  <2> QED
      BY <1>3, <2>1, <2>2, SameChunks
<1>6. JobsAreWhole'
    BY <1>3 DEF RemoteInv, JobsAreWhole
<1>7. SuccessReported'
  <2>1. \A r \in Runs : Succeeded(r) => Succeeded(r)'
      BY <1>3 DEF Succeeded
  <2>2. n.ran /\ n.outcome = "success" => Succeeded(n.run)'
      BY <1>3 DEF Succeeded
  <2> QED
      BY <2>1, <2>2, SuccessKeeps
<1> QED
    BY <1>1, <1>2, <1>4, <1>5, <1>6, <1>7 DEF RemoteInv

\* recvWorkspace takes a chunk, and unpacks after the last one.
LEMMA ReceiveStep ==
    ASSUME RemoteInv, NEW k \in DOMAIN jobs, Receive(k)
    PROVE  RemoteInv'
<1> DEFINE got == Append(jobs[k].got, Head(jobs[k].data))
           eof == Head(jobs[k].data) = Chunks
           run == got = [i \in 1 .. Chunks |-> i]
           n == [jobs[k] EXCEPT
                   !.got = got, !.data = Tail(@), !.ran = eof /\ run,
                   !.pc = IF ~eof THEN "recv" ELSE IF run THEN "run" ELSE "exit",
                   !.outcome = IF eof /\ ~run THEN "failed" ELSE @,
                   !.drains = eof /\ ~run]
           f == Frame(IF run THEN "running" ELSE "failed", jobs[k].run, 0)
<1>1. /\ jobs[k].pc = "recv" /\ jobs[k].data # << >>
      /\ jobs' = [jobs EXCEPT ![k] = n]
      /\ eof => Send(f)
      /\ ~eof => in' = in
      /\ UNCHANGED <<rpc, res, tries, sent, sessions, events>>
      /\ UNCHANGED <<hub, link, pub, out, conn, waiting>> /\ entry' = entry
  <2>1. /\ jobs[k].pc = "recv" /\ jobs[k].data # << >>
        /\ jobs' = [jobs EXCEPT ![k] = n]
    <3>1. jobs \in Seq(AgentJobs)
        BY DEF RemoteInv, AgentOK
    <3>2. /\ jobs[k].pc = "recv" /\ jobs[k].data # << >>
          /\ jobs' = [jobs EXCEPT
                        ![k].got = got, ![k].data = Tail(@), ![k].ran = eof /\ run,
                        ![k].pc = IF ~eof THEN "recv" ELSE IF run THEN "run" ELSE "exit",
                        ![k].outcome = IF eof /\ ~run THEN "failed" ELSE @,
                        ![k].drains = eof /\ ~run]
        BY Zenon DEF Receive, Complete
    <3> HIDE DEF got, eof, run
    <3> QED
        BY <3>1, <3>2
  <2>2. (eof => Send(f)) /\ (~eof => in' = in)
      BY Zenon DEF Receive, Complete
  <2>3. /\ UNCHANGED <<rpc, res, tries, sent, sessions, events>>
        /\ UNCHANGED <<hub, link, pub, out, conn, waiting>> /\ entry' = entry
      BY DEF Receive, serverVars
  <2> QED
      BY <2>1, <2>2, <2>3
<1>2. jobs[k] \in AgentJobs /\ jobs[k].got \in Seq(Nat) /\ jobs[k].data \in Seq(Nat)
    BY JobFacts
<1>3. /\ Tail(jobs[k].data) \in Seq(Nat) /\ Head(jobs[k].data) \in Nat
      /\ Elems(jobs[k].data) = Elems(Tail(jobs[k].data)) \cup {Head(jobs[k].data)}
    BY <1>1, <1>2, TailElems
<1>4. got \in Seq(Nat) /\ Elems(got) = Elems(jobs[k].got) \cup {Head(jobs[k].data)}
    BY <1>2, <1>3, AppendElems
<1>5. jobs[k].ran = FALSE /\ jobs[k].outcome = "none"
    BY <1>1, <1>2 DEF RemoteInv, JobsAreWhole, AgentJobs
<1>6. eof \in BOOLEAN /\ run \in BOOLEAN
    OBVIOUS
<1>7. f \in Frames /\ f.type # "success"
    BY <1>2 DEF Frame, Frames, AgentJobs
<1> HIDE DEF got, eof, run, f
<1>8. /\ n \in AgentJobs /\ n.run = jobs[k].run /\ n.got = got /\ n.data = Tail(jobs[k].data)
      /\ n.ran = (eof /\ run)
      /\ n.pc = IF ~eof THEN "recv" ELSE IF run THEN "run" ELSE "exit"
      /\ n.outcome = IF eof /\ ~run THEN "failed" ELSE "none"
    BY <1>2, <1>3, <1>4, <1>5, <1>6 DEF AgentJobs
<1> HIDE DEF n
<1>9. Elems(n.got) \cup Elems(n.data) \subseteq Delivered(k)
    BY <1>3, <1>4, <1>8 DEF Delivered
<1>10. /\ n.pc = "recv" => ~n.ran /\ n.outcome = "none"
       /\ n.pc = "run" => n.ran /\ n.outcome = "none"
       /\ n.outcome # "success"
    BY <1>6, <1>8
<1>11. n.ran => n.got = [i \in 1 .. Chunks |-> i]
    BY <1>8 DEF run
<1>12. /\ in' \in [Conns -> Seq(Frames)]
       /\ \A c \in Conns : \A g \in Elems(in'[c]) : g \in Elems(in[c]) \/ g = f
  <2>1. CASE eof
      BY <1>1, <1>7, <2>1, SendFacts
  <2>2. CASE ~eof
      BY <1>1, <2>2 DEF RemoteInv, WireOK
  <2> QED
      BY <2>1, <2>2
<1>13. \A c \in Conns : \A g \in Elems(in'[c]) : g \in Elems(in[c]) \/ g.type # "success"
    BY <1>7, <1>12
<1> QED
    BY <1>1, <1>5, <1>8, <1>9, <1>10, <1>11, <1>12, <1>13, OneJob

\* execJob reports how a job ended; only one that runs reports success.
LEMMA ReportStep ==
    ASSUME RemoteInv, NEW k \in DOMAIN jobs, Finish(k) \/ Abandon(k)
    PROVE  RemoteInv'
<1>1. PICK o \in {"success", "failed"} :
        /\ Report(k, o) /\ jobs[k].pc \in {"recv", "run"}
        /\ o = "success" => jobs[k].pc = "run"
    BY DEF Finish, Abandon
<1> DEFINE n == [jobs[k] EXCEPT !.pc = "exit", !.outcome = o, !.drains = TRUE]
           f == Frame(o, jobs[k].run, 0)
<1>2. /\ jobs' = [jobs EXCEPT ![k] = n] /\ Send(f)
      /\ UNCHANGED <<rpc, res, tries, sent, sessions, events>>
      /\ UNCHANGED <<hub, link, pub, out, conn, waiting>> /\ entry' = entry
  <2>1. jobs' = [jobs EXCEPT ![k].pc = "exit", ![k].outcome = o, ![k].drains = TRUE]
      BY <1>1 DEF Report
  <2>2. jobs \in Seq(AgentJobs) /\ jobs[k] \in AgentJobs
      BY JobFacts DEF RemoteInv, AgentOK
  <2>3. jobs' = [jobs EXCEPT ![k] = n]
      BY <2>1, <2>2
  <2> QED
      BY <1>1, <2>3 DEF Report, serverVars
<1>3. jobs[k] \in AgentJobs
    BY JobFacts
<1>4. f \in Frames /\ f.type = o /\ f.run = jobs[k].run
    BY <1>3 DEF Frame, Frames, AgentJobs
<1>5. /\ n \in AgentJobs /\ n.run = jobs[k].run /\ n.got = jobs[k].got /\ n.data = jobs[k].data
      /\ n.ran = jobs[k].ran /\ n.pc = "exit" /\ n.outcome = o
    BY <1>3 DEF AgentJobs
<1> HIDE DEF n, f
<1>6. /\ jobs[k].outcome = "none" /\ (o = "success" => jobs[k].ran)
      /\ jobs[k].ran => jobs[k].got = [i \in 1 .. Chunks |-> i]
    BY <1>1 DEF RemoteInv, JobsAreWhole
<1>7. Elems(n.got) \cup Elems(n.data) \subseteq Delivered(k)
    BY <1>5 DEF Delivered
<1>8. /\ in' \in [Conns -> Seq(Frames)]
      /\ \A c \in Conns : \A g \in Elems(in'[c]) : g \in Elems(in[c]) \/ g = f
    BY <1>2, <1>4, SendFacts
<1>9. f.type = "success" => f.run = n.run /\ n.ran /\ n.outcome = "success"
    BY <1>4, <1>5, <1>6
<1>10. \A c \in Conns : \A g \in Elems(in'[c]) :
         \/ g \in Elems(in[c])
         \/ g.type = "success" => g.run = n.run /\ n.ran /\ n.outcome = "success"
    BY <1>8, <1>9
<1>11. /\ n.pc = "recv" => ~n.ran /\ n.outcome = "none"
       /\ n.pc = "run" => n.ran /\ n.outcome = "none"
       /\ n.outcome = "success" => n.ran
       /\ n.ran => n.got = [i \in 1 .. Chunks |-> i]
       /\ jobs[k].ran /\ jobs[k].outcome = "success" => n.ran /\ n.outcome = "success"
    BY <1>5, <1>6
<1> QED
    BY <1>2, <1>5, <1>7, <1>8, <1>10, <1>11, OneJob

\* The goroutine ends, and the entry of its run with it.
LEMMA ExitStep ==
    ASSUME RemoteInv, NEW k \in DOMAIN jobs, Exit(k)
    PROVE  RemoteInv'
<1> DEFINE n == [jobs[k] EXCEPT !.pc = "done"]
<1>1. /\ jobs[k].pc = "exit" /\ jobs' = [jobs EXCEPT ![k] = n]
      /\ entry' = [entry EXCEPT ![jobs[k].run] = 0]
      /\ UNCHANGED <<rpc, res, tries, sent, sessions, events>>
      /\ UNCHANGED <<hub, link, pub, out, conn, waiting>> /\ in' = in
    BY DEF Exit, serverVars, wireVars
<1>2. jobs[k] \in AgentJobs
    BY JobFacts
<1>3. /\ n \in AgentJobs /\ n.run = jobs[k].run /\ n.got = jobs[k].got /\ n.data = jobs[k].data
      /\ n.ran = jobs[k].ran /\ n.pc = "done" /\ n.outcome = jobs[k].outcome
    BY <1>2 DEF AgentJobs
<1> HIDE DEF n
<1>4. Elems(n.got) \cup Elems(n.data) \subseteq Delivered(k)
    BY <1>3 DEF Delivered
<1>5. /\ n.pc = "recv" => ~n.ran /\ n.outcome = "none"
      /\ n.pc = "run" => n.ran /\ n.outcome = "none"
      /\ n.outcome = "success" => n.ran
      /\ n.ran => n.got = [i \in 1 .. Chunks |-> i]
      /\ jobs[k].ran /\ jobs[k].outcome = "success" => n.ran /\ n.outcome = "success"
    BY <1>3 DEF RemoteInv, JobsAreWhole
<1>6. /\ in' \in [Conns -> Seq(Frames)]
      /\ \A c \in Conns : \A g \in Elems(in'[c]) : g \in Elems(in[c])
    BY <1>1 DEF RemoteInv, WireOK
<1> QED
    BY <1>1, <1>3, <1>4, <1>5, <1>6, OneJob

\* What a job leaves behind empties its channel.
LEMMA DrainStep ==
    ASSUME RemoteInv, NEW k \in DOMAIN jobs, Drain(k)
    PROVE  RemoteInv'
<1>1. jobs[k] \in AgentJobs /\ jobs[k].data \in Seq(Nat)
    BY JobFacts
<1>2. PICK n \in AgentJobs :
        /\ jobs' = [jobs EXCEPT ![k] = n]
        /\ n.run = jobs[k].run /\ n.got = jobs[k].got /\ n.ran = jobs[k].ran
        /\ n.pc = jobs[k].pc /\ n.outcome = jobs[k].outcome
        /\ Elems(n.data) \subseteq Elems(jobs[k].data)
  <2>1. CASE jobs[k].data # << >> /\ jobs' = [jobs EXCEPT ![k].data = Tail(@)]
    <3> DEFINE n == [jobs[k] EXCEPT !.data = Tail(@)]
    <3>1. /\ Tail(jobs[k].data) \in Seq(Nat)
          /\ Elems(Tail(jobs[k].data)) \subseteq Elems(jobs[k].data)
        BY <1>1, <2>1, TailElems
    <3>2. n \in AgentJobs /\ n.data = Tail(jobs[k].data)
        BY <1>1, <3>1 DEF AgentJobs
    <3>3. jobs' = [jobs EXCEPT ![k] = n]
        BY <2>1
    <3>4. /\ n.run = jobs[k].run /\ n.got = jobs[k].got /\ n.ran = jobs[k].ran
          /\ n.pc = jobs[k].pc /\ n.outcome = jobs[k].outcome
        BY <1>1 DEF AgentJobs
    <3> HIDE DEF n
    <3> QED
        BY <3>1, <3>2, <3>3, <3>4
  <2>2. CASE jobs' = [jobs EXCEPT ![k].drains = FALSE]
    <3> DEFINE n == [jobs[k] EXCEPT !.drains = FALSE]
    <3>1. n \in AgentJobs
        BY <1>1 DEF AgentJobs
    <3>2. jobs' = [jobs EXCEPT ![k] = n]
        BY <2>2
    <3>3. /\ n.run = jobs[k].run /\ n.got = jobs[k].got /\ n.ran = jobs[k].ran
          /\ n.pc = jobs[k].pc /\ n.outcome = jobs[k].outcome /\ n.data = jobs[k].data
        BY <1>1 DEF AgentJobs
    <3> HIDE DEF n
    <3> QED
        BY <3>1, <3>2, <3>3
  <2> QED
      BY <2>1, <2>2 DEF Drain
<1>3. /\ UNCHANGED <<rpc, res, tries, sent, sessions, events>>
      /\ UNCHANGED <<hub, link, pub, out, conn, waiting>> /\ entry' = entry /\ in' = in
    BY DEF Drain, serverVars, wireVars
<1>4. Elems(n.got) \cup Elems(n.data) \subseteq Delivered(k)
    BY <1>2 DEF Delivered
<1>5. /\ n.pc = "recv" => ~n.ran /\ n.outcome = "none"
      /\ n.pc = "run" => n.ran /\ n.outcome = "none"
      /\ n.outcome = "success" => n.ran
      /\ n.ran => n.got = [i \in 1 .. Chunks |-> i]
      /\ jobs[k].ran /\ jobs[k].outcome = "success" => n.ran /\ n.outcome = "success"
    BY <1>2 DEF RemoteInv, JobsAreWhole
<1>6. in' \in [Conns -> Seq(Frames)]
    BY <1>3 DEF RemoteInv, WireOK
<1> QED
    BY <1>2, <1>3, <1>4, <1>5, <1>6, OneJob

----------------------------------------------------------------------------
(* Remote execution as a whole.                                            *)

LEMMA RemoteInit ==
    ASSUME RemoteAssumption, Init
    PROVE  RemoteInv /\ HandsOver
<1>1. << >> \in Seq(Frames) /\ << >> \in Seq(AgentJobs) /\ Len(<< >>) = 0 /\ DOMAIN << >> = {}
      /\ Elems(<< >>) = {} /\ InOrder(<< >>, << >>)
    BY NoElems DEF InOrder
<1>2. 0 \in 0 .. MaxTries /\ 0 \in 0 .. Chunks /\ 0 \in 0 .. MaxConns
    BY DEF RemoteAssumption
<1>3. ServerOK
    BY <1>1, <1>2 DEF Init, ServerOK, Steps
<1>4. WireOK
    BY <1>1 DEF Init, WireOK
<1>5. AgentOK
    BY <1>1, <1>2 DEF Init, AgentOK
<1>6. ChunksInOrder /\ ChunksSent /\ ChunksAreNew /\ ChunksOnce /\ JobsAreWhole
    BY <1>1 DEF Init, ChunksInOrder, ChunksSent, ChunksAreNew, ChunksOnce, JobsAreWhole
<1>7. SuccessReported
    BY <1>1 DEF Init, SuccessReported
<1>8. HandsOver
    BY <1>1 DEF Init, HandsOver
<1> QED
    BY <1>3, <1>4, <1>5, <1>6, <1>7, <1>8 DEF RemoteInv

LEMMA RemoteNext ==
    ASSUME RemoteInv, HandsOver, Next
    PROVE  RemoteInv'
<1>1. ASSUME NEW r \in Runs,
             \/ Start(r) \/ RunRemote(r) \/ Cancel(r) \/ AwaitTimeout(r) \/ Deadline(r)
      PROVE  RemoteInv'
    BY <1>1, QuietStep, DispatchStep, StreamStep, CancelCastStep DEF RunRemote
<1>2. ASSUME NEW c \in Conns, HubStep(c) \/ Heartbeat(c) \/ Connect(c) \/ LinkLost(c)
      PROVE  RemoteInv'
  <2>1. CASE PumpClosed(c)
      BY <2>1, RemoteRestart DEF PumpClosed
  <2> QED
      BY <1>2, <2>1, PumpStep, HubReadStep, TeardownStep, ConnectStep DEF HubStep
<1>3. CASE ReadLoop
  <2>1. CASE DataBlocks
    <3>1. /\ UNCHANGED <<rpc, res, tries, sent, sessions, events>>
          /\ UNCHANGED <<hub, link, pub, out, in>> /\ UNCHANGED <<conn, waiting, entry, jobs>>
        BY <2>1 DEF DataBlocks, serverVars, wireVars
    <3> QED
        BY <3>1, HubKeeps, WireFacts DEF RemoteInv, WireOK
  <2> QED
      BY <1>3, <2>1, ReadJobStep, TakeSlotStep, ReadDataStep, HandOverStep, ReadCancelStep,
         DisconnectStep
      DEF ReadLoop
<1>4. ASSUME NEW k, Job(k) \/ Drains(k)
      PROVE  RemoteInv'
    BY <1>4, ReceiveStep, ReportStep, ExitStep, DrainStep DEF Job, Drains
<1>5. CASE Crash
    BY <1>5, RemoteRestart DEF Crash
<1> QED
    BY <1>1, <1>2, <1>3, <1>4, <1>5 DEF Next

\* The agent's jobs get more, and keep their runs.
JobsStay ==
    /\ DOMAIN jobs \subseteq DOMAIN jobs'
    /\ \A k \in DOMAIN jobs : jobs'[k].run = jobs[k].run

LEMMA JobsGrow ==
    ASSUME RemoteInv, RemoteInv', JobsStay
    PROVE  /\ Len(jobs) \in Nat /\ Len(jobs') \in Nat /\ Len(jobs) <= Len(jobs')
           /\ DOMAIN jobs = 1 .. Len(jobs)
<1>1. jobs \in Seq(AgentJobs) /\ jobs' \in Seq(AgentJobs)
    BY DEF RemoteInv, AgentOK
<1>2. /\ Len(jobs) \in Nat /\ DOMAIN jobs = 1 .. Len(jobs)
      /\ Len(jobs') \in Nat /\ DOMAIN jobs' = 1 .. Len(jobs')
    BY <1>1
<1>3. Len(jobs) <= Len(jobs')
  <2>1. Len(jobs) \in 1 .. Len(jobs) \/ Len(jobs) = 0
      BY <1>2
  <2> QED
      BY <1>2, <2>1 DEF JobsStay
<1> QED
    BY <1>2, <1>3

\* What the read loop has in hand stays at the front.
LEMMA HandStays ==
    ASSUME RemoteInv, RemoteInv', HandsOver, JobsStay, UNCHANGED <<conn, handing>>,
           \A c \in Conns : out[c] # << >> => out'[c] # << >> /\ Head(out'[c]) = Head(out[c])
    PROVE  HandsOver'
<1>1. /\ Len(jobs) \in Nat /\ Len(jobs') \in Nat /\ Len(jobs) <= Len(jobs')
      /\ DOMAIN jobs = 1 .. Len(jobs)
    BY JobsGrow
<1>2. handing' \in 0 .. Len(jobs')
    BY <1>1 DEF HandsOver
<1>3. ASSUME handing # 0
      PROVE  /\ conn # 0 /\ out'[conn] # << >> /\ Head(out'[conn]).type = "data"
             /\ Head(out'[conn]).run = jobs'[handing].run
  <2>1. handing \in DOMAIN jobs
      BY <1>1, <1>3 DEF HandsOver
  <2>2. conn \in Conns
      BY <1>3, ConnFacts DEF HandsOver
  <2> QED
      BY <1>3, <2>1, <2>2 DEF HandsOver, JobsStay
<1> QED
    BY <1>2, <1>3 DEF HandsOver

\* Nothing is in hand, and nothing is taken in hand.
LEMMA NothingInHand ==
    ASSUME RemoteInv', handing' = 0
    PROVE  HandsOver'
<1>1. jobs' \in Seq(AgentJobs)
    BY DEF RemoteInv, AgentOK
<1>2. Len(jobs') \in Nat
    BY <1>1
<1> QED
    BY <1>2 DEF HandsOver

\* A frame joins the end of a queue.
LEMMA FrontStays ==
    ASSUME NEW S, NEW q \in Seq(S), NEW f, q # << >>
    PROVE  Append(q, f) # << >> /\ Head(Append(q, f)) = Head(q)
    OBVIOUS

LEMMA HandsOverNext ==
    ASSUME RemoteInv, RemoteInv', HandsOver, Next
    PROVE  HandsOver'
<1> DEFINE Front == \A c \in Conns :
                      out[c] # << >> => out'[c] # << >> /\ Head(out'[c]) = Head(out[c])
<1>1. jobs \in Seq(AgentJobs) /\ jobs' \in Seq(AgentJobs)
    BY DEF RemoteInv, AgentOK
<1>2. out \in [Conns -> Seq(Frames)]
    BY DEF RemoteInv, WireOK
<1>3. ASSUME out' = out PROVE Front
    BY <1>3
<1>4. ASSUME NEW r \in Runs,
             \/ Start(r) \/ RunRemote(r) \/ Cancel(r) \/ AwaitTimeout(r) \/ Deadline(r)
      PROVE  UNCHANGED <<conn, handing, jobs>> /\ Front
  <2>1. CASE CancelCast(r)
    <3>1. /\ UNCHANGED <<conn, handing, jobs>>
          /\ \/ out' = [c \in Conns |-> IF hub[c] = "live"
                                        THEN Append(out[c], Frame("cancel", r, 0)) ELSE out[c]]
             \/ out' = out
        BY <2>1 DEF CancelCast, agentVars
    <3> QED
        BY <1>2, <3>1, FrontStays
  <2>2. CASE ~CancelCast(r)
    <3>1. UNCHANGED <<conn, handing, jobs, out>>
        BY <1>4, <2>2 DEF Start, RunRemote, Cancel, AwaitTimeout, Deadline, Dispatch, Await,
           Stream, Wait, Cancelled, wireVars, agentVars
    <3> QED
        BY <1>3, <3>1
  <2> QED
      BY <2>1, <2>2
<1>5. ASSUME NEW c \in Conns, HubStep(c) \/ Heartbeat(c) \/ LinkLost(c)
      PROVE  UNCHANGED <<conn, handing, jobs>> /\ Front
  <2>1. CASE Pump(c)
    <3>1. /\ UNCHANGED <<conn, handing, jobs>>
          /\ out' = [out EXCEPT ![c] = Append(@, Head(pub[c]))] \/ out' = out
        BY <2>1 DEF Pump, agentVars
    <3> QED
        BY <1>2, <3>1, FrontStays
  <2>2. CASE ~Pump(c)
    <3>1. UNCHANGED <<conn, handing, jobs, out>>
        BY <1>5, <2>2 DEF HubStep, PumpClosed, Restart, HubRead, Teardown, Heartbeat, LinkLost,
           wireVars, agentVars
    <3> QED
        BY <1>3, <3>1
  <2> QED
      BY <2>1, <2>2
<1>6. ASSUME NEW c \in Conns, Connect(c)
      PROVE  HandsOver'
  <2>1. handing' = 0
      BY <1>6 DEF Connect, HandsOver
  <2> QED
      BY <2>1, NothingInHand
<1>7. CASE ReadLoop
  <2>1. CASE TakeSlot
    <3>1. PICK n : jobs' = Append(jobs, n) /\ UNCHANGED <<conn, handing, out>>
        BY <2>1 DEF TakeSlot, wireVars
    <3>2. JobsStay
        BY <1>1, <3>1 DEF JobsStay
    <3> QED
        BY <1>3, <3>1, <3>2, HandStays
  <2>2. CASE DataBlocks
    <3> DEFINE r == Head(out[conn]).run
    <3>1. /\ conn # 0 /\ out[conn] # << >> /\ Head(out[conn]).type = "data"
          /\ entry[r] # 0 /\ handing' = entry[r] /\ UNCHANGED <<conn, out, jobs>>
        BY <2>2 DEF DataBlocks, Arrived, Reading, wireVars
    <3>2. r \in Runs
      <4>1. conn \in Conns
          BY <3>1, ConnFacts
      <4>2. Head(out[conn]) \in Frames
          BY <1>2, <3>1, <4>1, TailElems
      <4> QED
          BY <4>2 DEF Frames
    <3>3. entry[r] \in DOMAIN jobs /\ jobs[entry[r]].run = r
        BY <3>1, <3>2, EntryFacts
    <3>4. entry[r] \in 0 .. Len(jobs)
        BY <1>1, <3>3
    <3> QED
        BY <3>1, <3>3, <3>4 DEF HandsOver
  <2>3. CASE ReadJob \/ ReadData \/ HandOver \/ ReadCancel \/ Disconnect
    <3>1. handing' = 0
        BY <2>3 DEF ReadJob, ReadData, HandOver, ReadCancel, Disconnect, NextFrame, Arrived,
           Reading
    <3> QED
        BY <3>1, NothingInHand
  <2> QED
      BY <1>7, <2>1, <2>2, <2>3 DEF ReadLoop
<1>8. ASSUME NEW k, Job(k) \/ Drains(k)
      PROVE  HandsOver'
  <2>1. k \in DOMAIN jobs /\ UNCHANGED <<conn, handing, out>>
      BY <1>8 DEF Job, Drains, Receive, Finish, Abandon, Report, Exit, Drain, wireVars
  <2>2. JobsStay
    <3>1. CASE Receive(k)
      <4> DEFINE got == Append(jobs[k].got, Head(jobs[k].data))
                 eof == Head(jobs[k].data) = Chunks
                 run == Complete(got)
      <4>1. jobs \in Seq(AgentJobs)
          BY <1>1 DEF RemoteInv, AgentOK
      <4>2. jobs' = [jobs EXCEPT
                       ![k].got = got, ![k].data = Tail(@), ![k].ran = eof /\ run,
                       ![k].pc = IF ~eof THEN "recv" ELSE IF run THEN "run" ELSE "exit",
                       ![k].outcome = IF eof /\ ~run THEN "failed" ELSE @,
                       ![k].drains = eof /\ ~run]
          BY <3>1, Zenon DEF Receive
      <4> HIDE DEF got, eof, run
      <4> QED
          BY <2>1, <4>1, <4>2 DEF JobsStay, AgentJobs
    <3>2. CASE Finish(k) \/ Abandon(k)
      <4>1. PICK o : jobs' = [jobs EXCEPT ![k].pc = "exit", ![k].outcome = o, ![k].drains = TRUE]
          BY <3>2 DEF Finish, Abandon, Report
      <4> QED
          BY <1>1, <2>1, <4>1 DEF JobsStay
    <3>3. CASE Exit(k)
        BY <1>1, <2>1, <3>3 DEF Exit, JobsStay, AgentJobs
    <3>4. CASE Drain(k)
      <4>1. PICK n : n.run = jobs[k].run /\ jobs' = [jobs EXCEPT ![k] = n]
        <5>1. jobs[k].run = [jobs[k] EXCEPT !.data = Tail(@)].run
            BY <1>1, <2>1 DEF AgentJobs
        <5>2. jobs[k].run = [jobs[k] EXCEPT !.drains = FALSE].run
            BY <1>1, <2>1 DEF AgentJobs
        <5> QED
            BY <3>4, <5>1, <5>2, Zenon DEF Drain
      <4> QED
          BY <1>1, <2>1, <4>1 DEF JobsStay
    <3> QED
        BY <1>8, <3>1, <3>2, <3>3, <3>4 DEF Job, Drains
  <2> QED
      BY <1>3, <2>1, <2>2, HandStays
<1>9. CASE Crash
  <2>1. UNCHANGED <<conn, handing, jobs, out>>
      BY <1>9 DEF Crash, Restart, agentVars
  <2> QED
      BY <1>3, <2>1, HandStays DEF JobsStay
<1> QED
    BY <1>4, <1>5, <1>6, <1>7, <1>8, <1>9, HandStays DEF Next, JobsStay

LEMMA RemoteInvariance ==
    ASSUME RemoteAssumption
    PROVE  Behaviour => [](RemoteInv /\ HandsOver)
<1>1. RemoteInv /\ HandsOver /\ [Next]_vars => (RemoteInv /\ HandsOver)'
  <2> SUFFICES ASSUME RemoteInv, HandsOver, [Next]_vars PROVE RemoteInv' /\ HandsOver'
      OBVIOUS
  <2>1. CASE UNCHANGED vars
    <3>1. RemoteInv'
        BY <2>1, HubKeeps, WireFacts
        DEF vars, serverVars, wireVars, agentVars, RemoteInv, WireOK
    <3> QED
        BY <2>1, <3>1, HandStays DEF vars, wireVars, agentVars, JobsStay
  <2>2. CASE Next
      BY <2>2, RemoteNext, HandsOverNext
  <2> QED
      BY <2>1, <2>2
<1>2. Init => RemoteInv /\ HandsOver
    BY RemoteInit
<1> QED
    BY <1>1, <1>2, PTL DEF Behaviour

----------------------------------------------------------------------------
(* The theorems.                                                           *)

\* The variables keep their types, the sessions are those of the open calls, and the
\* entries and the read loop name jobs of the agent.
THEOREM RemoteTypes ==
    ASSUME RemoteAssumption
    PROVE  Behaviour => []TypeOK
<1>1. RemoteInv /\ HandsOver => TypeOK
    BY DEF RemoteInv, HandsOver, ServerOK, WireOK, AgentOK, TypeOK
<1> QED
    BY RemoteInvariance, <1>1, PTL

\* A run whose job frame was sent more than once is executed at most once: its chunks
\* are streamed once, every connection carries them in order, and no two jobs of the
\* agent collect the same one (RunRemote, remote.go:68-101).
THEOREM OneExecution ==
    ASSUME RemoteAssumption
    PROVE  Behaviour => []ExecutedOnce
<1>1. RemoteInv => ExecutedOnce
  <2> SUFFICES ASSUME RemoteInv, NEW j \in DOMAIN jobs, NEW k \in DOMAIN jobs,
                      jobs[j].run = jobs[k].run, jobs[j].ran, jobs[k].ran, j # k
               PROVE  FALSE
      BY DEF ExecutedOnce
  <2>1. 1 \in 1 .. Chunks
      BY DEF RemoteAssumption
  <2>2. /\ jobs[j].got = [i \in 1 .. Chunks |-> i] /\ jobs[k].got = [i \in 1 .. Chunks |-> i]
      BY DEF RemoteInv, JobsAreWhole
  <2>3. 1 \in Elems([i \in 1 .. Chunks |-> i])
      BY <2>1 DEF Elems
  <2>4. 1 \in Delivered(j) \cap Delivered(k)
      BY <2>2, <2>3 DEF Delivered
  <2> QED
      BY <2>4 DEF RemoteInv, ChunksOnce
<1> QED
    BY RemoteInvariance, <1>1, PTL

\* RunRemote returns success only when a job of the run collected every chunk of the
\* workspace, executed and reported success (remote.go:103-158).
THEOREM SuccessOfAJob ==
    ASSUME RemoteAssumption
    PROVE  Behaviour => []SuccessIsReal
<1>1. RemoteInv => SuccessIsReal
    BY DEF RemoteInv, SuccessReported, JobsAreWhole, Succeeded, SuccessIsReal
<1> QED
    BY RemoteInvariance, <1>1, PTL

=============================================================================
