------------------------------ MODULE Workspace ------------------------------
(***************************************************************************)
(* RunInWorkspace: the steps of a pipeline run, one container each, with   *)
(* parallel groups, timeouts and a cancel; before them the repository's    *)
(* cache is restored, after them it is saved.  A server's own executor and *)
(* the agents run this code; runs of one repository on one host share the  *)
(* entry of the cache.                                                     *)
(* Source: src/backend/internal/pipeline/executor.go, cache.go.            *)
(***************************************************************************)
EXTENDS Naturals, Sequences, FiniteSets

CONSTANTS
    Runs,       \* runs of one repository with one cache key
    Steps,      \* the sub-steps of each step; a plain step is a group of one
    Paths,      \* cache.paths
    MaxFaults   \* bound on the crashes, cancels and failures of docker rm

VARIABLES
    pc,        \* each run's place in RunInWorkspace and cacheSave
    at,        \* the step it is at
    sub,       \* its sub-steps: the goroutine's place in runStep, or its result
    cancelled, \* runs whose context was cancelled
    cont,      \* containers that run
    stray,     \* containers that docker rm did not remove
    base,      \* the entry: whose save it is (NoRun: no entry), and its paths
    tmp,       \* the paths each run saves
    opened,    \* whose entry a run removes
    todo,      \* the paths of it that are left
    torn,      \* a run died between RemoveAll(base) and the end of the rename
    saved,     \* runs whose save was committed
    faults

vars == <<pc, at, sub, cancelled, cont, stray, base, tmp, opened, todo, torn, saved, faults>>
stepVars  == <<at, sub, cancelled, cont, stray>>
cacheVars == <<base, tmp, opened, todo, torn, saved>>

Subs  == UNION {Steps[k] : k \in DOMAIN Steps}
NoRun == "none"
NoEntry == [by |-> NoRun, paths |-> {}]

\* What the proofs take of the constants.
WorkspaceAssumption ==
    /\ NoRun \notin Runs
    /\ Steps \in Seq(SUBSET Subs)
    /\ MaxFaults \in Nat

TypeOK ==
    /\ pc \in [Runs -> {"idle", "next", "step", "save", "remove", "rename", "ok", "error", "dead"}]
    /\ at \in [Runs -> 1 .. Len(Steps) + 1]
    /\ sub \in [Runs -> [Subs -> {"idle", "start", "client", "cleanup ok", "cleanup error",
                                  "ok", "error"}]]
    /\ cancelled \subseteq Runs
    /\ cont \subseteq Runs \X Subs /\ stray \subseteq Runs \X Subs
    /\ base \in [by : Runs \cup {NoRun}, paths : SUBSET Paths]
    /\ tmp \in [Runs -> SUBSET Paths] /\ todo \in [Runs -> SUBSET Paths]
    /\ opened \in [Runs -> Runs \cup {NoRun}]
    /\ torn \in BOOLEAN /\ saved \subseteq Runs
    /\ faults \in 0 .. MaxFaults

Init ==
    /\ pc = [r \in Runs |-> "idle"] /\ at = [r \in Runs |-> 1]
    /\ sub = [r \in Runs |-> [s \in Subs |-> "idle"]]
    /\ cancelled = {} /\ cont = {} /\ stray = {}
    /\ base = NoEntry /\ tmp = [r \in Runs |-> {}]
    /\ opened = [r \in Runs |-> NoRun] /\ todo = [r \in Runs |-> {}]
    /\ torn = FALSE /\ saved = {} /\ faults = 0

----------------------------------------------------------------------------
(* The steps.                                                              *)

\* cacheRestore copies what the entry has at the moment, path by path; the
\* workspace is private, so that nothing else is to be said of it.
Restore(r) ==
    /\ pc[r] = "idle"
    /\ pc' = [pc EXCEPT ![r] = "next"]
    /\ UNCHANGED <<stepVars, cacheVars, faults>>

\* The next step; `when` decides whether it is skipped.
Skip(r) ==
    /\ pc[r] = "next" /\ at[r] <= Len(Steps)
    /\ at' = [at EXCEPT ![r] = @ + 1]
    /\ UNCHANGED <<pc, sub, cancelled, cont, stray, cacheVars, faults>>

NextStep(r) ==
    /\ pc[r] = "next" /\ at[r] <= Len(Steps)
    /\ pc' = [pc EXCEPT ![r] = "step"]
    /\ sub' = [sub EXCEPT ![r] = [s \in Subs |-> IF s \in Steps[at[r]] THEN "start" ELSE @[s]]]
    /\ UNCHANGED <<at, cancelled, cont, stray, cacheVars, faults>>

\* A sub-step of a group has a `when` of its own.
SkipSub(r, s) ==
    /\ sub[r][s] = "start" /\ Cardinality(Steps[at[r]]) > 1
    /\ sub' = [sub EXCEPT ![r][s] = "ok"]
    /\ UNCHANGED <<pc, at, cancelled, cont, stray, cacheVars, faults>>

\* runStep starts docker run, which a finished context refuses.
StartClient(r, s) ==
    /\ sub[r][s] = "start"
    /\ sub' = [sub EXCEPT ![r][s] = IF r \in cancelled THEN "cleanup error" ELSE "client"]
    /\ UNCHANGED <<pc, at, cancelled, cont, stray, cacheVars, faults>>

\* The daemon starts the container of a client.
ContainerUp(r, s) ==
    /\ sub[r][s] = "client"
    /\ cont' = cont \cup {<<r, s>>}
    /\ UNCHANGED <<pc, at, sub, cancelled, stray, cacheVars, faults>>

\* A container comes to its end; its client, when it is still there, returns.
ContainerExits(r, s) ==
    /\ <<r, s>> \in cont
    /\ cont' = cont \ {<<r, s>>}
    /\ IF sub[r][s] = "client"
       THEN \E e \in {"cleanup ok", "cleanup error"} : sub' = [sub EXCEPT ![r][s] = e]
       ELSE UNCHANGED sub
    /\ UNCHANGED <<pc, at, cancelled, stray, cacheVars, faults>>

\* The image cannot be had, or the daemon refuses.
ClientFails(r, s) ==
    /\ sub[r][s] = "client" /\ <<r, s>> \notin cont
    /\ sub' = [sub EXCEPT ![r][s] = "cleanup error"]
    /\ UNCHANGED <<pc, at, cancelled, cont, stray, cacheVars, faults>>

\* Mutant: a client that was killed is not cleaned up after.
KillClientOnly(r, s) ==
    /\ sub[r][s] = "client"
    /\ sub' = [sub EXCEPT ![r][s] = "error"]
    /\ UNCHANGED <<pc, at, cancelled, cont, stray, cacheVars, faults>>

\* The context ends, by the step's timeout or by a cancel: only the client dies.
KillClient(r, s) ==
    /\ sub[r][s] = "client"
    /\ sub' = [sub EXCEPT ![r][s] = "cleanup error"]
    /\ UNCHANGED <<pc, at, cancelled, cont, stray, cacheVars, faults>>

\* removeContainer, with a timeout of its own.
RemoveContainer(r, s) ==
    /\ sub[r][s] \in {"cleanup ok", "cleanup error"}
    /\ sub' = [sub EXCEPT ![r][s] = IF @ = "cleanup ok" THEN "ok" ELSE "error"]
    /\ \/ cont' = cont \ {<<r, s>>} /\ UNCHANGED <<stray, faults>>
       \/ /\ <<r, s>> \in cont /\ faults < MaxFaults
          /\ faults' = faults + 1
          /\ stray' = stray \cup {<<r, s>>} /\ UNCHANGED cont
    /\ UNCHANGED <<pc, at, cancelled, cacheVars>>

\* Every sub-step has returned (wg.Wait): the first error ends the run.
Ended(r) == \A s \in Steps[at[r]] : sub[r][s] \in {"ok", "error"}

StepEnds(r) ==
    /\ pc[r] = "step" /\ Ended(r)
    /\ IF \E s \in Steps[at[r]] : sub[r][s] = "error"
       THEN pc' = [pc EXCEPT ![r] = "error"] /\ UNCHANGED at
       ELSE pc' = [pc EXCEPT ![r] = "next"] /\ at' = [at EXCEPT ![r] = @ + 1]
    /\ UNCHANGED <<sub, cancelled, cont, stray, cacheVars, faults>>

StepsDone(r) ==
    /\ pc[r] = "next" /\ at[r] > Len(Steps)
    /\ pc' = [pc EXCEPT ![r] = "save"]
    /\ UNCHANGED <<stepVars, cacheVars, faults>>

----------------------------------------------------------------------------
(* cacheSave.                                                              *)

\* No path is there, or the copy to the run's own directory fails.
NothingToSave(r) ==
    /\ pc[r] = "save"
    /\ pc' = [pc EXCEPT ![r] = "ok"]
    /\ UNCHANGED <<stepVars, cacheVars, faults>>

\* The paths that are there are copied, then RemoveAll opens and lists the entry.
OpenBase(r) ==
    /\ pc[r] = "save"
    /\ \E P \in SUBSET Paths \ {{}} : tmp' = [tmp EXCEPT ![r] = P]
    /\ opened' = [opened EXCEPT ![r] = base.by]
    /\ todo' = [todo EXCEPT ![r] = base.paths]
    /\ pc' = [pc EXCEPT ![r] = "remove"]
    /\ UNCHANGED <<stepVars, base, torn, saved, faults>>

\* RemoveAll works in the directory it opened, wherever that is by now.
RemovePath(r, p) ==
    /\ pc[r] = "remove" /\ p \in todo[r]
    /\ todo' = [todo EXCEPT ![r] = @ \ {p}]
    /\ base' = IF base.by = opened[r] THEN [base EXCEPT !.paths = @ \ {p}] ELSE base
    /\ UNCHANGED <<pc, stepVars, tmp, opened, torn, saved, faults>>

\* The directory goes by its name, when it is empty.
RemoveDir(r) ==
    /\ pc[r] = "remove" /\ todo[r] = {}
    /\ base' = IF base.paths = {} THEN NoEntry ELSE base
    /\ pc' = [pc EXCEPT ![r] = "rename"]
    /\ UNCHANGED <<stepVars, tmp, opened, todo, torn, saved, faults>>

\* Mutant: the clean-up after a failed rename removes the entry.
DiscardBase(r) == base' = NoEntry /\ UNCHANGED <<torn, saved>>

\* What a rename that fails leaves: the run's own directory goes, not the entry.
Discard(r) == UNCHANGED <<base, torn, saved>>

\* os.Rename does not replace a directory.
Rename(r) ==
    /\ pc[r] = "rename"
    /\ IF base.by = NoRun
       THEN /\ base' = [by |-> r, paths |-> tmp[r]]
            /\ torn' = FALSE /\ saved' = saved \cup {r}
       ELSE Discard(r)
    /\ pc' = [pc EXCEPT ![r] = "ok"]
    /\ UNCHANGED <<stepVars, tmp, opened, todo, faults>>

----------------------------------------------------------------------------
(* The environment.                                                        *)

Cancel(r) ==
    /\ pc[r] \notin {"ok", "error", "dead"} /\ r \notin cancelled /\ faults < MaxFaults
    /\ faults' = faults + 1
    /\ cancelled' = cancelled \cup {r}
    /\ UNCHANGED <<pc, at, sub, cont, stray, cacheVars>>

\* The process of a run dies; its containers do not.
Crash(r) ==
    /\ pc[r] \notin {"idle", "ok", "error", "dead"} /\ faults < MaxFaults
    /\ faults' = faults + 1
    /\ pc' = [pc EXCEPT ![r] = "dead"]
    /\ sub' = [sub EXCEPT ![r] = [s \in Subs |-> "idle"]]
    /\ torn' = (torn \/ pc[r] \in {"remove", "rename"})
    /\ UNCHANGED <<at, cancelled, cont, stray, base, tmp, opened, todo, saved>>

----------------------------------------------------------------------------
Execute(r) ==
    \/ Restore(r) \/ Skip(r) \/ NextStep(r) \/ StepEnds(r) \/ StepsDone(r)
    \/ NothingToSave(r) \/ OpenBase(r) \/ RemoveDir(r) \/ Rename(r)
    \/ \E p \in Paths : RemovePath(r, p)

Next ==
    \E r \in Runs :
        \/ Execute(r) \/ Cancel(r) \/ Crash(r)
        \/ \E s \in Subs :
            \/ SkipSub(r, s) \/ StartClient(r, s) \/ ClientFails(r, s) \/ KillClient(r, s)
            \/ RemoveContainer(r, s) \/ ContainerUp(r, s) \/ ContainerExits(r, s)

Spec == Init /\ [][Next]_vars

----------------------------------------------------------------------------
\* No container outlives its step: whatever comes next, a further step, the save
\* of the cache, the removal of the workspace, no container of an earlier step
\* writes to it any more, although a timeout or a cancel kills only the client
\* (runStep, executor.go:199-201), and a failed sub-step does not stop its group.
\* A container stays when its process died or docker rm was given up.
NoContainerLeft ==
    \A r \in Runs, s \in Subs :
        <<r, s>> \in cont \ stray /\ pc[r] # "dead" =>
            /\ pc[r] = "step" /\ s \in Steps[at[r]]
            /\ sub[r][s] \in {"client", "cleanup ok", "cleanup error"}

\* However saves interleave, the cache is not lost: RemoveAll and rename are two
\* steps (cacheSave, cache.go:98-99), but once a run has saved it, there is an
\* entry whenever no run is between them, and it is one run's save, whole.  Only a
\* process that dies between them leaves less, until the next save.
CacheSurvives ==
    saved # {} /\ ~torn /\ (\A r \in Runs : pc[r] \notin {"remove", "rename"}) =>
        base.by \in saved /\ base.paths = tmp[base.by]

=============================================================================
