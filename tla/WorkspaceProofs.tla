--------------------------- MODULE WorkspaceProofs ---------------------------
(***************************************************************************)
(* Proofs about Workspace: its type invariant, that no container outlives  *)
(* its step, and that interleaved saves do not lose the cache, for any     *)
(* number of runs, steps and paths.                                        *)
(***************************************************************************)
EXTENDS Workspace, TLAPS

----------------------------------------------------------------------------
(* The inductive invariant.                                                *)

\* A sub-step that is under way belongs to the step its run is at.
SubInStep ==
    \A r \in Runs, s \in Subs :
        sub[r][s] \in {"start", "client", "cleanup ok", "cleanup error"} =>
            pc[r] = "step" /\ s \in Steps[at[r]]

\* An entry is that of a run whose save was committed, and such a run has ended.
EntrySaved ==
    /\ base.by # NoRun => base.by \in saved
    /\ \A r \in saved : pc[r] = "ok"

\* Whoever removes the present entry has not seen the last of it.
RemoverSees ==
    \A r \in Runs : pc[r] = "remove" =>
        /\ opened[r] # NoRun => opened[r] \in saved
        /\ opened[r] = base.by => base.paths \subseteq todo[r]

\* An entry that is not whole is being removed, or somebody died.
PartialRemoved ==
    base.by # NoRun /\ base.paths # tmp[base.by] /\ ~torn =>
        \E r \in Runs : pc[r] = "remove" /\ opened[r] = base.by

\* An entry that is gone is about to be replaced, or somebody died.
GoneReplaced ==
    saved # {} /\ base.by = NoRun /\ ~torn => \E r \in Runs : pc[r] = "rename"

\* A run at a step has not passed the last one.
AtStep == \A r \in Runs : pc[r] = "step" => at[r] <= Len(Steps)

StepInv  == SubInStep /\ NoContainerLeft
CacheInv == EntrySaved /\ RemoverSees /\ PartialRemoved /\ GoneReplaced

USE DEF WorkspaceAssumption, NoRun

LEMMA StepsLen ==
    ASSUME WorkspaceAssumption
    PROVE  Len(Steps) \in Nat /\ DOMAIN Steps = 1 .. Len(Steps)
    OBVIOUS

LEMMA InitInv ==
    ASSUME WorkspaceAssumption
    PROVE  Init => TypeOK /\ AtStep /\ StepInv /\ CacheInv
<1> SUFFICES ASSUME Init PROVE TypeOK /\ AtStep /\ StepInv /\ CacheInv
    OBVIOUS
<1>1. at \in [Runs -> 1 .. Len(Steps) + 1]
    BY StepsLen DEF Init
<1>2. TypeOK /\ AtStep
  <2>1. pc \in [Runs -> {"idle", "next", "step", "save", "remove", "rename", "ok", "error",
                         "dead"}]
      BY DEF Init
  <2>2. sub \in [Runs -> [Subs -> {"idle", "start", "client", "cleanup ok", "cleanup error",
                                   "ok", "error"}]]
      BY DEF Init
  <2>3. base \in [by : Runs \cup {NoRun}, paths : SUBSET Paths]
      BY DEF Init, NoEntry
  <2>4. /\ cancelled \subseteq Runs
        /\ cont \subseteq Runs \X Subs /\ stray \subseteq Runs \X Subs
        /\ tmp \in [Runs -> SUBSET Paths] /\ todo \in [Runs -> SUBSET Paths]
        /\ opened \in [Runs -> Runs \cup {NoRun}]
        /\ torn \in BOOLEAN /\ saved \subseteq Runs
      BY DEF Init
  <2>5. AtStep /\ faults = 0
      BY DEF Init, AtStep
  <2>6. faults \in 0 .. MaxFaults
      BY <2>5
  <2> QED
      BY <1>1, <2>1, <2>2, <2>3, <2>4, <2>5, <2>6 DEF TypeOK
<1>3. StepInv
    BY DEF Init, StepInv, SubInStep, NoContainerLeft
<1>4. CacheInv
    BY DEF Init, CacheInv, EntrySaved, RemoverSees, PartialRemoved, GoneReplaced, NoEntry
<1> QED
    BY <1>2, <1>3, <1>4

\* The shape of the variables in four groups, each moved by few actions.
TypePc    == pc \in [Runs -> {"idle", "next", "step", "save", "remove", "rename", "ok", "error",
                              "dead"}]
TypeAt    == at \in [Runs -> 1 .. Len(Steps) + 1]
TypeSub   == sub \in [Runs -> [Subs -> {"idle", "start", "client", "cleanup ok", "cleanup error",
                                        "ok", "error"}]]
TypeSteps == cancelled \subseteq Runs /\ cont \subseteq Runs \X Subs
               /\ stray \subseteq Runs \X Subs /\ faults \in 0 .. MaxFaults
TypeCache ==
    /\ base \in [by : Runs \cup {NoRun}, paths : SUBSET Paths]
    /\ tmp \in [Runs -> SUBSET Paths] /\ todo \in [Runs -> SUBSET Paths]
    /\ opened \in [Runs -> Runs \cup {NoRun}]
    /\ torn \in BOOLEAN /\ saved \subseteq Runs

Shape == TypePc /\ TypeAt /\ TypeSub /\ TypeSteps /\ TypeCache /\ AtStep

LEMMA TypeGroups == TypeOK <=> TypePc /\ TypeAt /\ TypeSub /\ TypeSteps /\ TypeCache
    BY DEF TypeOK, TypePc, TypeAt, TypeSub, TypeSteps, TypeCache

\* Every step keeps the type invariant.
LEMMA TypeStep ==
    ASSUME WorkspaceAssumption
    PROVE  TypeOK /\ AtStep /\ [Next]_vars => TypeOK' /\ AtStep'
<1> SUFFICES ASSUME TypeOK, AtStep, [Next]_vars
             PROVE  Shape'
    BY TypeGroups DEF Shape, TypeOK, TypePc, TypeAt, TypeSub, TypeSteps, TypeCache
<1> USE TypeGroups, StepsLen DEF stepVars, cacheVars
<1>1. ASSUME NEW r \in Runs, Restore(r) PROVE Shape'
    BY <1>1 DEF Restore, Shape,
       TypePc, TypeAt, TypeSub, TypeSteps, TypeCache, AtStep
<1>2. ASSUME NEW r \in Runs, Skip(r) PROVE Shape'
  <2>1. TypePc'
      BY <1>2 DEF Skip, TypePc
  <2>2. TypeAt'
      BY <1>2 DEF Skip, TypeAt
  <2>3. TypeSub'
      BY <1>2 DEF Skip, TypeSub
  <2>4. TypeSteps'
      BY <1>2 DEF Skip, TypeSteps
  <2>5. TypeCache'
      BY <1>2 DEF Skip, TypeCache
  <2>6. AtStep'
      BY <1>2 DEF Skip, AtStep, TypePc, TypeAt
  <2> QED
      BY <2>1, <2>2, <2>3, <2>4, <2>5, <2>6 DEF Shape
<1>3. ASSUME NEW r \in Runs, NextStep(r) PROVE Shape'
    BY <1>3 DEF NextStep, Shape,
       TypePc, TypeAt, TypeSub, TypeSteps, TypeCache, AtStep
<1>4. ASSUME NEW r \in Runs, StepEnds(r) PROVE Shape'
  <2>1. TypePc'
      BY <1>4 DEF StepEnds, TypePc
  <2>2. TypeAt'
      BY <1>4 DEF StepEnds, TypeAt, AtStep
  <2>3. TypeSub'
      BY <1>4 DEF StepEnds, TypeSub
  <2>4. TypeSteps'
      BY <1>4 DEF StepEnds, TypeSteps
  <2>5. TypeCache'
      BY <1>4 DEF StepEnds, TypeCache
  <2>6. AtStep'
      BY <1>4 DEF StepEnds, AtStep, TypePc, TypeAt
  <2> QED
      BY <2>1, <2>2, <2>3, <2>4, <2>5, <2>6 DEF Shape
<1>5. ASSUME NEW r \in Runs, StepsDone(r) PROVE Shape'
    BY <1>5 DEF StepsDone, Shape,
       TypePc, TypeAt, TypeSub, TypeSteps, TypeCache, AtStep
<1>6. ASSUME NEW r \in Runs, NothingToSave(r) PROVE Shape'
    BY <1>6 DEF NothingToSave, Shape,
       TypePc, TypeAt, TypeSub, TypeSteps, TypeCache, AtStep
<1>7. ASSUME NEW r \in Runs, OpenBase(r) PROVE Shape'
  <2>1. TypePc'
      BY <1>7 DEF OpenBase, TypePc
  <2>2. TypeAt'
      BY <1>7 DEF OpenBase, TypeAt
  <2>3. TypeSub'
      BY <1>7 DEF OpenBase, TypeSub
  <2>4. TypeSteps'
      BY <1>7 DEF OpenBase, TypeSteps
  <2>5. TypeCache'
      BY <1>7 DEF OpenBase, TypeCache
  <2>6. AtStep'
      BY <1>7 DEF OpenBase, AtStep, TypePc, TypeAt
  <2> QED
      BY <2>1, <2>2, <2>3, <2>4, <2>5, <2>6 DEF Shape
<1>8. ASSUME NEW r \in Runs, RemoveDir(r) PROVE Shape'
    BY <1>8 DEF RemoveDir, NoEntry, Shape,
       TypePc, TypeAt, TypeSub, TypeSteps, TypeCache, AtStep
<1>9. ASSUME NEW r \in Runs, Rename(r) PROVE Shape'
  <2>1. TypePc'
      BY <1>9 DEF Rename, Discard, TypePc
  <2>2. TypeAt'
      BY <1>9 DEF Rename, Discard, TypeAt
  <2>3. TypeSub'
      BY <1>9 DEF Rename, Discard, TypeSub
  <2>4. TypeSteps'
      BY <1>9 DEF Rename, Discard, TypeSteps
  <2>5. TypeCache'
    <3>1. CASE base.by = NoRun
      <4>1. base' \in [by : Runs \cup {NoRun}, paths : SUBSET Paths]
          BY <1>9, <3>1 DEF Rename, TypeCache
      <4> QED
          BY <1>9, <3>1, <4>1 DEF Rename, TypeCache
    <3>2. CASE base.by # NoRun
        BY <1>9, <3>2 DEF Rename, Discard, TypeCache
    <3> QED
        BY <3>1, <3>2
  <2>6. AtStep'
      BY <1>9 DEF Rename, Discard, AtStep, TypePc, TypeAt
  <2> QED
      BY <2>1, <2>2, <2>3, <2>4, <2>5, <2>6 DEF Shape
<1>10. ASSUME NEW r \in Runs, Cancel(r) PROVE Shape'
  <2>1. TypePc'
      BY <1>10 DEF Cancel, TypePc
  <2>2. TypeAt'
      BY <1>10 DEF Cancel, TypeAt
  <2>3. TypeSub'
      BY <1>10 DEF Cancel, TypeSub
  <2>4. TypeSteps'
      BY <1>10 DEF Cancel, TypeSteps
  <2>5. TypeCache'
      BY <1>10 DEF Cancel, TypeCache
  <2>6. AtStep'
      BY <1>10 DEF Cancel, AtStep, TypePc, TypeAt
  <2> QED
      BY <2>1, <2>2, <2>3, <2>4, <2>5, <2>6 DEF Shape
<1>11. ASSUME NEW r \in Runs, Crash(r) PROVE Shape'
  <2>1. TypePc'
      BY <1>11 DEF Crash, TypePc
  <2>2. TypeAt'
      BY <1>11 DEF Crash, TypeAt
  <2>3. TypeSub'
      BY <1>11 DEF Crash, TypeSub
  <2>4. TypeSteps'
      BY <1>11 DEF Crash, TypeSteps
  <2>5. TypeCache'
      BY <1>11 DEF Crash, TypeCache
  <2>6. AtStep'
      BY <1>11 DEF Crash, AtStep, TypePc, TypeAt
  <2> QED
      BY <2>1, <2>2, <2>3, <2>4, <2>5, <2>6 DEF Shape
<1>12. ASSUME NEW r \in Runs, NEW p \in Paths, RemovePath(r, p) PROVE Shape'
    BY <1>12 DEF RemovePath, Shape,
       TypePc, TypeAt, TypeSub, TypeSteps, TypeCache, AtStep
<1>13. ASSUME NEW r \in Runs, NEW s \in Subs, SkipSub(r, s) PROVE Shape'
    BY <1>13 DEF SkipSub, Shape,
       TypePc, TypeAt, TypeSub, TypeSteps, TypeCache, AtStep
<1>14. ASSUME NEW r \in Runs, NEW s \in Subs, StartClient(r, s) PROVE Shape'
    BY <1>14 DEF StartClient, Shape,
       TypePc, TypeAt, TypeSub, TypeSteps, TypeCache, AtStep
<1>15. ASSUME NEW r \in Runs, NEW s \in Subs, ClientFails(r, s) PROVE Shape'
    BY <1>15 DEF ClientFails, Shape,
       TypePc, TypeAt, TypeSub, TypeSteps, TypeCache, AtStep
<1>16. ASSUME NEW r \in Runs, NEW s \in Subs, KillClient(r, s) PROVE Shape'
    BY <1>16 DEF KillClient, Shape,
       TypePc, TypeAt, TypeSub, TypeSteps, TypeCache, AtStep
<1>17. ASSUME NEW r \in Runs, NEW s \in Subs, RemoveContainer(r, s) PROVE Shape'
  <2>1. TypePc'
      BY <1>17 DEF RemoveContainer, TypePc
  <2>2. TypeAt'
      BY <1>17 DEF RemoveContainer, TypeAt
  <2>3. TypeSub'
      BY <1>17 DEF RemoveContainer, TypeSub
  <2>4. TypeSteps'
    <3>1. CASE cont' = cont \ {<<r, s>>} /\ UNCHANGED <<stray, faults>>
        BY <1>17, <3>1 DEF RemoveContainer, TypeSteps
    <3>2. CASE <<r, s>> \in cont /\ faults < MaxFaults /\ faults' = faults + 1
                 /\ stray' = stray \cup {<<r, s>>} /\ UNCHANGED cont
      <4>1. faults' \in 0 .. MaxFaults
          BY <3>2 DEF TypeSteps
      <4> QED
          BY <1>17, <3>2, <4>1 DEF RemoveContainer, TypeSteps
    <3> QED
        BY <1>17, <3>1, <3>2 DEF RemoveContainer
  <2>5. TypeCache'
      BY <1>17 DEF RemoveContainer, TypeCache
  <2>6. AtStep'
      BY <1>17 DEF RemoveContainer, AtStep, TypePc, TypeAt
  <2> QED
      BY <2>1, <2>2, <2>3, <2>4, <2>5, <2>6 DEF Shape
<1>18. ASSUME NEW r \in Runs, NEW s \in Subs, ContainerUp(r, s) PROVE Shape'
  <2>1. TypePc'
      BY <1>18 DEF ContainerUp, TypePc
  <2>2. TypeAt'
      BY <1>18 DEF ContainerUp, TypeAt
  <2>3. TypeSub'
      BY <1>18 DEF ContainerUp, TypeSub
  <2>4. TypeSteps'
      BY <1>18 DEF ContainerUp, TypeSteps
  <2>5. TypeCache'
      BY <1>18 DEF ContainerUp, TypeCache
  <2>6. AtStep'
      BY <1>18 DEF ContainerUp, AtStep, TypePc, TypeAt
  <2> QED
      BY <2>1, <2>2, <2>3, <2>4, <2>5, <2>6 DEF Shape
<1>19. ASSUME NEW r \in Runs, NEW s \in Subs, ContainerExits(r, s) PROVE Shape'
  <2>1. TypePc'
      BY <1>19 DEF ContainerExits, TypePc
  <2>2. TypeAt'
      BY <1>19 DEF ContainerExits, TypeAt
  <2>3. TypeSub'
    <3>1. CASE sub[r][s] = "client"
      <4>1. PICK e \in {"cleanup ok", "cleanup error"} : sub' = [sub EXCEPT ![r][s] = e]
          BY <1>19, <3>1 DEF ContainerExits
      <4> QED
          BY <4>1 DEF TypeSub
    <3>2. CASE sub[r][s] # "client"
        BY <1>19, <3>2 DEF ContainerExits, TypeSub
    <3> QED
        BY <3>1, <3>2
  <2>4. TypeSteps'
      BY <1>19 DEF ContainerExits, TypeSteps
  <2>5. TypeCache'
      BY <1>19 DEF ContainerExits, TypeCache
  <2>6. AtStep'
      BY <1>19 DEF ContainerExits, AtStep, TypePc, TypeAt
  <2> QED
      BY <2>1, <2>2, <2>3, <2>4, <2>5, <2>6 DEF Shape
<1>20. CASE UNCHANGED vars
    BY <1>20 DEF vars, Shape,
       TypePc, TypeAt, TypeSub, TypeSteps, TypeCache, AtStep
<1> QED
    BY <1>1, <1>2, <1>3, <1>4, <1>5, <1>6, <1>7, <1>8, <1>9, <1>10, <1>11, <1>12,
       <1>13, <1>14, <1>15, <1>16, <1>17, <1>18, <1>19, <1>20
       DEF Next, Execute

----------------------------------------------------------------------------
(* Sub-steps and containers.                                               *)

\* A step of the cache or of the environment leaves the sub-steps alone, and no
\* run enters or leaves a step.
LEMMA OutsideSteps ==
    ASSUME StepInv, UNCHANGED stepVars,
           \A q \in Runs : pc'[q] # pc[q] => pc[q] \notin {"step", "dead"} /\ pc'[q] # "step"
    PROVE  StepInv'
<1>1. SubInStep'
    BY DEF StepInv, SubInStep, stepVars
<1>2. NoContainerLeft'
    BY DEF StepInv, NoContainerLeft, stepVars
<1> QED
    BY <1>1, <1>2 DEF StepInv

Under == {"client", "cleanup ok", "cleanup error"}

LEMMA Left ==
    ASSUME StepInv, NEW q \in Runs, NEW u \in Subs, <<q, u>> \in cont \ stray, pc[q] # "dead"
    PROVE  pc[q] = "step" /\ u \in Steps[at[q]] /\ sub[q][u] \in Under
    BY DEF StepInv, NoContainerLeft, Under

LEMMA NoneLeft ==
    ASSUME StepInv, NEW q \in Runs, pc[q] \notin {"step", "dead"}
    PROVE  \A u \in Subs : <<q, u>> \notin cont \ stray /\ sub[q][u] \notin Under \cup {"start"}
<1>1. \A u \in Subs : <<q, u>> \notin cont \ stray
    BY Left
<1>2. \A u \in Subs : sub[q][u] \notin Under \cup {"start"}
    BY DEF StepInv, SubInStep, Under
<1> QED
    BY <1>1, <1>2

\* A step of one sub-step: its container, if any is left, is looked after.
LEMMA OneSub ==
    ASSUME TypeOK, StepInv, NEW r \in Runs, NEW s \in Subs, NEW v,
           sub[r][s] \in Under \cup {"start"}, sub' = [sub EXCEPT ![r][s] = v],
           v \in Under \cup {"ok", "error"}, UNCHANGED <<pc, at>>, stray \subseteq stray',
           cont' \subseteq cont \cup {<<r, s>>}, <<r, s>> \in cont' \ stray' => v \in Under
    PROVE  StepInv'
<1>1. /\ sub'[r][s] = v
      /\ \A q \in Runs, u \in Subs : q # r \/ u # s => sub'[q][u] = sub[q][u]
    BY DEF TypeOK
<1>2. SubInStep'
    BY <1>1 DEF StepInv, SubInStep, Under
<1>3. NoContainerLeft'
  <2> SUFFICES ASSUME NEW q \in Runs, NEW u \in Subs, <<q, u>> \in cont' \ stray',
                      pc[q] # "dead"
               PROVE  pc[q] = "step" /\ u \in Steps[at[q]] /\ sub'[q][u] \in Under
      BY DEF NoContainerLeft, Under
  <2>1. CASE q = r /\ u = s
      BY <1>1, <2>1 DEF StepInv, SubInStep, Under
  <2>2. CASE q # r \/ u # s
    <3>1. <<q, u>> \in cont \ stray
        BY <2>2
    <3>2. pc[q] = "step" /\ u \in Steps[at[q]] /\ sub[q][u] \in Under
        BY <3>1, Left
    <3> QED
        BY <1>1, <2>2, <3>2
  <2> QED
      BY <2>1, <2>2
<1> QED
    BY <1>2, <1>3 DEF StepInv

\* A run that begins, skips or ends a step has no container left.
LEMMA OneRun ==
    ASSUME StepInv, NEW r \in Runs, UNCHANGED <<cont, stray>>,
           \A q \in Runs \ {r} : pc'[q] = pc[q] /\ at'[q] = at[q] /\ sub'[q] = sub[q],
           \A u \in Subs : sub'[r][u] \in Under \cup {"start"} =>
               pc'[r] = "step" /\ u \in Steps[at'[r]],
           \/ pc'[r] = "dead"
           \/ \A u \in Subs : <<r, u>> \notin cont \ stray
    PROVE  StepInv'
<1>1. SubInStep'
    BY DEF StepInv, SubInStep, Under
<1>2. NoContainerLeft'
    BY DEF StepInv, NoContainerLeft
<1> QED
    BY <1>1, <1>2 DEF StepInv

LEMMA StepsStep ==
    ASSUME WorkspaceAssumption
    PROVE  TypeOK /\ StepInv /\ [Next]_vars => StepInv'
<1> SUFFICES ASSUME TypeOK, StepInv, [Next]_vars PROVE StepInv'
    OBVIOUS
<1> USE DEF TypeOK
<1>1. ASSUME NEW r \in Runs, Restore(r) PROVE StepInv'
    BY <1>1, OutsideSteps DEF Restore
<1>2. ASSUME NEW r \in Runs, Skip(r) PROVE StepInv'
  <2>1. \A u \in Subs : <<r, u>> \notin cont \ stray /\ sub[r][u] \notin Under \cup {"start"}
      BY <1>2, NoneLeft DEF Skip
  <2> QED
      BY <1>2, <2>1, OneRun DEF Skip
<1>3. ASSUME NEW r \in Runs, NextStep(r) PROVE StepInv'
  <2>1. \A u \in Subs : <<r, u>> \notin cont \ stray /\ sub[r][u] \notin Under \cup {"start"}
      BY <1>3, NoneLeft DEF NextStep
  <2>2. \A u \in Subs : sub'[r][u] = IF u \in Steps[at[r]] THEN "start" ELSE sub[r][u]
      BY <1>3 DEF NextStep
  <2> QED
      BY <1>3, <2>1, <2>2, OneRun DEF NextStep
<1>4. ASSUME NEW r \in Runs, StepEnds(r) PROVE StepInv'
  <2>1. \A u \in Subs : sub[r][u] \notin Under \cup {"start"}
      BY <1>4 DEF StepEnds, Ended, StepInv, SubInStep, Under
  <2>2. \A u \in Subs : <<r, u>> \notin cont \ stray
      BY <1>4, <2>1, Left DEF StepEnds
  <2>3. \A q \in Runs \ {r} : pc'[q] = pc[q] /\ at'[q] = at[q] /\ sub'[q] = sub[q]
      BY <1>4 DEF StepEnds
  <2> QED
      BY <1>4, <2>1, <2>2, <2>3, OneRun DEF StepEnds
<1>5. ASSUME NEW r \in Runs, StepsDone(r) PROVE StepInv'
    BY <1>5, OutsideSteps DEF StepsDone
<1>6. ASSUME NEW r \in Runs, NothingToSave(r) PROVE StepInv'
    BY <1>6, OutsideSteps DEF NothingToSave
<1>7. ASSUME NEW r \in Runs, OpenBase(r) PROVE StepInv'
    BY <1>7, OutsideSteps DEF OpenBase
<1>8. ASSUME NEW r \in Runs, RemoveDir(r) PROVE StepInv'
    BY <1>8, OutsideSteps DEF RemoveDir
<1>9. ASSUME NEW r \in Runs, Rename(r) PROVE StepInv'
    BY <1>9, OutsideSteps DEF Rename, Discard
<1>10. ASSUME NEW r \in Runs, Cancel(r) PROVE StepInv'
    BY <1>10 DEF Cancel, StepInv, SubInStep, NoContainerLeft
<1>11. ASSUME NEW r \in Runs, Crash(r) PROVE StepInv'
  <2>1. \A u \in Subs : sub'[r][u] = "idle"
      BY <1>11 DEF Crash
  <2> QED
      BY <1>11, <2>1, OneRun DEF Crash, Under
<1>12. ASSUME NEW r \in Runs, NEW p \in Paths, RemovePath(r, p) PROVE StepInv'
    BY <1>12, OutsideSteps DEF RemovePath
<1>13. ASSUME NEW r \in Runs, NEW s \in Subs, SkipSub(r, s) PROVE StepInv'
  <2>1. <<r, s>> \notin cont \ stray
    <3>1. pc[r] = "step" /\ sub[r][s] \notin Under
        BY <1>13 DEF SkipSub, StepInv, SubInStep, Under
    <3> QED
        BY <3>1, Left
  <2> QED
      BY <1>13, <2>1, OneSub DEF SkipSub, Under
<1>14. ASSUME NEW r \in Runs, NEW s \in Subs, StartClient(r, s) PROVE StepInv'
  <2> DEFINE v == IF r \in cancelled THEN "cleanup error" ELSE "client"
  <2>1. sub' = [sub EXCEPT ![r][s] = v] /\ v \in Under
      BY <1>14 DEF StartClient, Under
  <2> HIDE DEF v
  <2> QED
      BY <1>14, <2>1, OneSub DEF StartClient
<1>15. ASSUME NEW r \in Runs, NEW s \in Subs, ClientFails(r, s) PROVE StepInv'
    BY <1>15, OneSub DEF ClientFails, Under
<1>16. ASSUME NEW r \in Runs, NEW s \in Subs, KillClient(r, s) PROVE StepInv'
    BY <1>16, OneSub DEF KillClient, Under
<1>17. ASSUME NEW r \in Runs, NEW s \in Subs, RemoveContainer(r, s) PROVE StepInv'
  <2> DEFINE v == IF sub[r][s] = "cleanup ok" THEN "ok" ELSE "error"
  <2>1. sub' = [sub EXCEPT ![r][s] = v] /\ v \in {"ok", "error"}
      BY <1>17 DEF RemoveContainer
  <2>2. stray \subseteq stray' /\ cont' \subseteq cont /\ <<r, s>> \notin cont' \ stray'
      BY <1>17 DEF RemoveContainer
  <2>3. sub[r][s] \in Under /\ UNCHANGED <<pc, at>>
      BY <1>17 DEF RemoveContainer, Under
  <2> HIDE DEF v
  <2> QED
      BY <2>1, <2>2, <2>3, OneSub
<1>18. ASSUME NEW r \in Runs, NEW s \in Subs, ContainerUp(r, s) PROVE StepInv'
  <2>1. SubInStep'
      BY <1>18 DEF ContainerUp, StepInv, SubInStep
  <2>2. NoContainerLeft'
    <3> SUFFICES ASSUME NEW q \in Runs, NEW u \in Subs, <<q, u>> \in cont' \ stray,
                        pc[q] # "dead"
                 PROVE  pc[q] = "step" /\ u \in Steps[at[q]] /\ sub[q][u] \in Under
        BY <1>18 DEF ContainerUp, NoContainerLeft, Under
    <3>1. CASE <<q, u>> = <<r, s>>
        BY <1>18, <3>1 DEF ContainerUp, StepInv, SubInStep, Under
    <3>2. CASE <<q, u>> # <<r, s>>
        BY <1>18, <3>2 DEF ContainerUp, StepInv, NoContainerLeft, Under
    <3> QED
        BY <3>1, <3>2
  <2> QED
      BY <2>1, <2>2 DEF StepInv
<1>19. ASSUME NEW r \in Runs, NEW s \in Subs, ContainerExits(r, s) PROVE StepInv'
  <2>1. CASE sub[r][s] = "client"
    <3>1. PICK e \in {"cleanup ok", "cleanup error"} : sub' = [sub EXCEPT ![r][s] = e]
        BY <1>19, <2>1 DEF ContainerExits
    <3> QED
        BY <1>19, <2>1, <3>1, OneSub DEF ContainerExits, Under
  <2>2. CASE sub[r][s] # "client"
    <3>1. UNCHANGED <<pc, at, sub, stray>> /\ cont' \subseteq cont
        BY <1>19, <2>2 DEF ContainerExits
    <3> QED
        BY <3>1 DEF StepInv, SubInStep, NoContainerLeft
  <2> QED
      BY <2>1, <2>2
<1>20. CASE UNCHANGED vars
    BY <1>20, OutsideSteps DEF vars, stepVars
<1> QED
    BY <1>1, <1>2, <1>3, <1>4, <1>5, <1>6, <1>7, <1>8, <1>9, <1>10, <1>11, <1>12,
       <1>13, <1>14, <1>15, <1>16, <1>17, <1>18, <1>19, <1>20
       DEF Next, Execute

----------------------------------------------------------------------------
(* The entry of the cache.                                                 *)

\* A step that leaves the cache alone, and in which no run leaves RemoveAll, the
\* rename or its end, or enters one of the former two.
LEMMA OutsideCache ==
    ASSUME TypeOK, CacheInv, UNCHANGED cacheVars,
           \A q \in Runs : pc'[q] # pc[q] =>
               pc[q] \notin {"remove", "rename", "ok"} /\ pc'[q] \notin {"remove", "rename"}
    PROVE  CacheInv'
<1>1. EntrySaved'
    BY DEF TypeOK, CacheInv, EntrySaved, cacheVars
<1>2. RemoverSees'
    BY DEF CacheInv, RemoverSees, cacheVars
<1>3. PartialRemoved'
    BY DEF CacheInv, PartialRemoved, cacheVars
<1>4. GoneReplaced'
    BY DEF CacheInv, GoneReplaced, cacheVars
<1> QED
    BY <1>1, <1>2, <1>3, <1>4 DEF CacheInv

LEMMA CacheStep ==
    ASSUME WorkspaceAssumption
    PROVE  TypeOK /\ CacheInv /\ [Next]_vars => CacheInv'
<1> SUFFICES ASSUME TypeOK, CacheInv, [Next]_vars PROVE CacheInv'
    OBVIOUS
<1> USE DEF TypeOK
<1>1. ASSUME NEW r \in Runs, Restore(r) PROVE CacheInv'
    BY <1>1, OutsideCache DEF Restore
<1>2. ASSUME NEW r \in Runs, Skip(r) PROVE CacheInv'
    BY <1>2, OutsideCache DEF Skip
<1>3. ASSUME NEW r \in Runs, NextStep(r) PROVE CacheInv'
    BY <1>3, OutsideCache DEF NextStep
<1>4. ASSUME NEW r \in Runs, StepEnds(r) PROVE CacheInv'
    BY <1>4, OutsideCache DEF StepEnds
<1>5. ASSUME NEW r \in Runs, StepsDone(r) PROVE CacheInv'
    BY <1>5, OutsideCache DEF StepsDone
<1>6. ASSUME NEW r \in Runs, NothingToSave(r) PROVE CacheInv'
    BY <1>6, OutsideCache DEF NothingToSave
<1>7. ASSUME NEW r \in Runs, OpenBase(r) PROVE CacheInv'
  <2>1. EntrySaved'
      BY <1>7 DEF OpenBase, CacheInv, EntrySaved, RemoverSees
  <2>2. RemoverSees'
      BY <1>7 DEF OpenBase, CacheInv, EntrySaved, RemoverSees
  <2>3. PartialRemoved'
      BY <1>7 DEF OpenBase, CacheInv, EntrySaved, RemoverSees, PartialRemoved
  <2>4. GoneReplaced'
      BY <1>7 DEF OpenBase, CacheInv, EntrySaved, RemoverSees, GoneReplaced
  <2> QED
      BY <2>1, <2>2, <2>3, <2>4 DEF CacheInv
<1>8. ASSUME NEW r \in Runs, RemoveDir(r) PROVE CacheInv'
  <2>1. EntrySaved'
      BY <1>8 DEF RemoveDir, NoEntry, CacheInv, EntrySaved, RemoverSees
  <2>2. RemoverSees'
      BY <1>8 DEF RemoveDir, NoEntry, CacheInv, EntrySaved, RemoverSees
  <2>3. PartialRemoved'
      BY <1>8 DEF RemoveDir, NoEntry, CacheInv, EntrySaved, RemoverSees, PartialRemoved
  <2>4. GoneReplaced'
      BY <1>8 DEF RemoveDir, NoEntry, CacheInv, EntrySaved, RemoverSees, GoneReplaced
  <2> QED
      BY <2>1, <2>2, <2>3, <2>4 DEF CacheInv
<1>9. ASSUME NEW r \in Runs, Rename(r) PROVE CacheInv'
  <2>1. r \notin saved /\ NoRun \notin saved /\ \A q \in Runs \ {r} : pc'[q] = pc[q]
      BY <1>9 DEF Rename, CacheInv, EntrySaved
  <2>2. pc'[r] = "ok"
      BY <1>9 DEF Rename
  <2>3. CASE base.by = NoRun
    <3>1. base'.by = r /\ base'.paths = tmp[r] /\ saved' = saved \cup {r}
          /\ UNCHANGED <<tmp, opened, todo>>
      <4>1. base' = [by |-> r, paths |-> tmp[r]] /\ saved' = saved \cup {r}
            /\ UNCHANGED <<tmp, opened, todo>>
          BY <1>9, <2>3 DEF Rename
      <4> QED
          BY <4>1
    <3>2. EntrySaved'
        BY <2>1, <2>2, <3>1 DEF CacheInv, EntrySaved
    <3>3. RemoverSees'
        BY <2>1, <2>2, <3>1 DEF CacheInv, RemoverSees
    <3>4. PartialRemoved' /\ GoneReplaced'
        BY <3>1 DEF PartialRemoved, GoneReplaced
    <3> QED
        BY <3>2, <3>3, <3>4 DEF CacheInv
  <2>4. CASE base.by # NoRun
    <3>1. UNCHANGED cacheVars
        BY <1>9, <2>4 DEF Rename, Discard, cacheVars
    <3>2. EntrySaved'
        BY <2>1, <2>2, <3>1 DEF CacheInv, EntrySaved, cacheVars
    <3>3. RemoverSees'
        BY <2>1, <2>2, <3>1 DEF CacheInv, RemoverSees, cacheVars
    <3>4. PartialRemoved'
        BY <1>9, <2>1, <3>1 DEF Rename, CacheInv, PartialRemoved, cacheVars
    <3>5. GoneReplaced'
        BY <2>4, <3>1 DEF GoneReplaced, cacheVars
    <3> QED
        BY <3>2, <3>3, <3>4, <3>5 DEF CacheInv
  <2> QED
      BY <2>3, <2>4
<1>10. ASSUME NEW r \in Runs, Cancel(r) PROVE CacheInv'
    BY <1>10, OutsideCache DEF Cancel
<1>11. ASSUME NEW r \in Runs, Crash(r) PROVE CacheInv'
  <2>1. CASE pc[r] \in {"remove", "rename"}
      BY <1>11, <2>1 DEF Crash, CacheInv, EntrySaved, RemoverSees, PartialRemoved, GoneReplaced
  <2>2. CASE pc[r] \notin {"remove", "rename"}
      BY <1>11, <2>2, OutsideCache DEF Crash, cacheVars
  <2> QED
      BY <2>1, <2>2
<1>12. ASSUME NEW r \in Runs, NEW p \in Paths, RemovePath(r, p) PROVE CacheInv'
  <2>1. EntrySaved'
      BY <1>12 DEF RemovePath, CacheInv, EntrySaved, RemoverSees
  <2>2. RemoverSees'
      BY <1>12 DEF RemovePath, CacheInv, EntrySaved, RemoverSees
  <2>3. PartialRemoved'
      BY <1>12 DEF RemovePath, CacheInv, EntrySaved, RemoverSees, PartialRemoved
  <2>4. GoneReplaced'
      BY <1>12 DEF RemovePath, CacheInv, EntrySaved, RemoverSees, GoneReplaced
  <2> QED
      BY <2>1, <2>2, <2>3, <2>4 DEF CacheInv
<1>13. ASSUME NEW r \in Runs, NEW s \in Subs, SkipSub(r, s) PROVE CacheInv'
    BY <1>13, OutsideCache DEF SkipSub
<1>14. ASSUME NEW r \in Runs, NEW s \in Subs, StartClient(r, s) PROVE CacheInv'
    BY <1>14, OutsideCache DEF StartClient
<1>15. ASSUME NEW r \in Runs, NEW s \in Subs, ClientFails(r, s) PROVE CacheInv'
    BY <1>15, OutsideCache DEF ClientFails
<1>16. ASSUME NEW r \in Runs, NEW s \in Subs, KillClient(r, s) PROVE CacheInv'
    BY <1>16, OutsideCache DEF KillClient
<1>17. ASSUME NEW r \in Runs, NEW s \in Subs, RemoveContainer(r, s) PROVE CacheInv'
    BY <1>17, OutsideCache DEF RemoveContainer
<1>18. ASSUME NEW r \in Runs, NEW s \in Subs, ContainerUp(r, s) PROVE CacheInv'
    BY <1>18, OutsideCache DEF ContainerUp
<1>19. ASSUME NEW r \in Runs, NEW s \in Subs, ContainerExits(r, s) PROVE CacheInv'
    BY <1>19, OutsideCache DEF ContainerExits
<1>20. CASE UNCHANGED vars
    BY <1>20, OutsideCache DEF vars, cacheVars
<1> QED
    BY <1>1, <1>2, <1>3, <1>4, <1>5, <1>6, <1>7, <1>8, <1>9, <1>10, <1>11, <1>12,
       <1>13, <1>14, <1>15, <1>16, <1>17, <1>18, <1>19, <1>20
       DEF Next, Execute

----------------------------------------------------------------------------
(* The theorems.                                                           *)

LEMMA Invariance ==
    ASSUME WorkspaceAssumption
    PROVE  Spec => [](TypeOK /\ AtStep /\ StepInv /\ CacheInv)
<1>1. TypeOK /\ AtStep /\ StepInv /\ CacheInv /\ [Next]_vars
        => (TypeOK /\ AtStep /\ StepInv /\ CacheInv)'
    BY TypeStep, StepsStep, CacheStep
<1> QED
    BY InitInv, <1>1, PTL DEF Spec

\* Runs, containers and the cache keep their shape (Workspace's variables).
THEOREM TypeCorrect ==
    ASSUME WorkspaceAssumption
    PROVE  Spec => []TypeOK
    BY Invariance, PTL

\* No container of a run outlives the step that started it: removeContainer runs
\* when runStep returns, however it returns, and wg.Wait waits for every runStep.
THEOREM ContainersEnd ==
    ASSUME WorkspaceAssumption
    PROVE  Spec => []NoContainerLeft
<1>1. StepInv => NoContainerLeft
    BY DEF StepInv
<1> QED
    BY Invariance, <1>1, PTL

\* However many saves interleave, once the cache was saved it is there, and whole,
\* whenever no run is between RemoveAll and the end of the rename: the entry is
\* torn only by those that will try to replace it, and renamed only into a gap.
THEOREM CacheIsNotLost ==
    ASSUME WorkspaceAssumption
    PROVE  Spec => []CacheSurvives
<1>1. CacheInv => CacheSurvives
    BY DEF CacheInv, EntrySaved, PartialRemoved, GoneReplaced, CacheSurvives
<1> QED
    BY Invariance, <1>1, PTL

=============================================================================
