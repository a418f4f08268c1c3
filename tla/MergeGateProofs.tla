--------------------------- MODULE MergeGateProofs ---------------------------
(***************************************************************************)
(* Theorems about MergeGate for any number of pull requests, threads and   *)
(* reviewers, with and without a merge queue.                              *)
(***************************************************************************)
EXTENDS MergeGate, FiniteSetTheorems, WellFoundedInduction, TLAPS

USE MergeGateAssumption

-----------------------------------------------------------------------------
(* Lists given as ranks.                                                    *)

LEMMA LeastNumber ==
  ASSUME NEW T \in SUBSET Nat, T # {}
  PROVE  \E m \in T : \A n \in T : m <= n
<1> DEFINE R == OpToRel(<, Nat)
<1>1. IsWellFoundedOn(R, Nat)
  BY NatLessThanWellFounded
<1> HIDE DEF R
<1>2. PICK m \in T : \A n \in T : ~ (<<n, m>> \in R)
  BY <1>1, WFMin
<1>3. \A n \in T : n < m => <<n, m>> \in R
  BY DEF R, OpToRel
<1>4. \A n \in T : ~ (n < m)
  BY <1>2, <1>3
<1>5. m \in Nat /\ T \subseteq Nat
  OBVIOUS
<1>6. \A n \in T : m <= n
  BY <1>4, <1>5
<1>7. QED BY <1>6

\* A list that is not empty has a first member: one of lowest rank.
LEMMA FirstIsLeast ==
  ASSUME NEW list \in [Pulls -> Nat], list # Empty
  PROVE  /\ First(list) \in Members(list)
         /\ \A q \in Members(list) : list[First(list)] <= list[q]
<1> DEFINE Ranks == {list[p] : p \in Members(list)}
<1>1. Members(list) # {}
  BY DEF Members, Empty
<1>2. Ranks \in SUBSET Nat /\ Ranks # {}
  <2>1. \A p \in Members(list) : list[p] \in Nat
    BY DEF Members
  <2>2. QED BY <1>1, <2>1
<1>3. PICK m \in Ranks : \A n \in Ranks : m <= n
  BY <1>2, LeastNumber
<1>4. PICK p \in Members(list) : m = list[p]
  BY <1>3
<1>5. \A q \in Members(list) : list[p] <= list[q]
  BY <1>3, <1>4
<1>6. QED BY <1>4, <1>5 DEF First

LEMMA PushedIsNumber == ASSUME NEW S, NEW p PROVE Pushed(S, p) \in Nat
<1> DEFINE N == {n \in 0..MaxPushes : <<p, n>> \in S}
<1>1. IsFiniteSet(0..MaxPushes)
  BY FS_Interval
<1>2. IsFiniteSet(N)
  BY <1>1, FS_Subset
<1>3. QED BY <1>2, FS_CardinalityType DEF Pushed

-----------------------------------------------------------------------------
(* The shape of every variable.                                            *)

\* The part of TypeOK about the threads.
WorkOK ==
    /\ pc \in [Threads -> Steps]
    /\ pr \in [Threads -> Pulls \cup {NoPull}]
    /\ \A t \in Threads : pc[t] \in AtWork => pr[t] \in Pulls
    /\ todo \in [Threads -> [Pulls -> Nat]]
    /\ mode \in [Threads -> {"alone", "list", "queue"}]
    /\ more \in [Threads -> BOOLEAN]
    /\ want \in [Threads -> {"open", "closed"}]
    /\ head \in [Threads -> Commits]
    /\ new \in [Threads -> Commits] /\ old \in [Threads -> Commits]

\* The part about everything else.
SharedOK ==
    /\ state \in [Pulls -> {"open", "closed", "merged"}]
    /\ draft \in [Pulls -> BOOLEAN] /\ autoMerge \in [Pulls -> BOOLEAN]
    /\ headSHA \in [Pulls -> Commits]
    /\ queue \in [Pulls -> Nat] /\ lastId \in Nat
    /\ listed \in [Threads -> SUBSET Pulls]
    /\ reviews \in [Pulls -> [Reviewers ->
          [says : {"none", "approve", "request_changes"}, at : Commits]]]
    /\ green \subseteq Commits
    /\ tip \in [Pulls -> Commits] /\ target \in Commits
    /\ lock \in Threads \cup {NoThread}
    /\ landed \subseteq [pull : Pulls, judged : Commits, commit : Commits]
    /\ missed \subseteq Pulls /\ raced \in BOOLEAN
    /\ notices \in [Pulls -> Nat] /\ undone \in [Pulls -> Nat]
    /\ requests \in Nat

LEMMA TypeParts == TypeOK <=> WorkOK /\ SharedOK
  BY DEF TypeOK, WorkOK, SharedOK

\* The shapes one by one, for the steps that change few of the variables.
LEMMA Shapes ==
  ASSUME TypeOK, NEW t \in Threads
  PROVE  /\ pc[t] \in AtWork => pr[t] \in Pulls
         /\ head[t] \in Commits /\ new[t] \in Commits
         /\ want[t] \in {"open", "closed"}
         /\ state \in [Pulls -> {"open", "closed", "merged"}]
         /\ autoMerge \in [Pulls -> BOOLEAN] /\ headSHA \in [Pulls -> Commits]
         /\ tip \in [Pulls -> Commits] /\ target \in Commits
         /\ landed \subseteq [pull : Pulls, judged : Commits, commit : Commits]
         /\ missed \subseteq Pulls
         /\ notices \in [Pulls -> Nat] /\ undone \in [Pulls -> Nat]
  BY DEF TypeOK

LEMMA InitTypeOK == Init => TypeOK
<1> SUFFICES ASSUME Init PROVE WorkOK /\ SharedOK
  BY TypeParts
<1> USE DEF Init, Commits, Changes, NoPull
<1>1. WorkOK
  BY DEF WorkOK, Steps, AtWork, Locked, Empty
<1>2. reviews \in [Pulls -> [Reviewers ->
          [says : {"none", "approve", "request_changes"}, at : Commits]]]
  <2>1. PICK approved \in SUBSET (IF MinApprovals = 0 THEN {} ELSE Pulls) :
          reviews = [p \in Pulls |-> [v \in Reviewers |->
             IF p \in approved THEN [says |-> "approve", at |-> {<<p, 0>>}]
             ELSE [says |-> "none", at |-> {}]]]
    OBVIOUS
  <2>2. QED BY <2>1
<1>3. green \subseteq Commits
  OBVIOUS
<1>4. /\ headSHA \in [Pulls -> Commits] /\ tip \in [Pulls -> Commits]
      /\ target \in Commits
  OBVIOUS
<1>5. SharedOK
  BY <1>2, <1>3, <1>4 DEF SharedOK, Empty
<1>6. QED BY <1>1, <1>5

LEMMA LeaveWorkOK ==
  ASSUME TypeOK, NEW t \in Threads, Leave(t)
  PROVE  WorkOK'
  BY DEF TypeOK, WorkOK, Leave, Goto, Steps, AtWork, Locked, Commits, Empty, NoPull

LEMMA ResumeWorkOK ==
  ASSUME TypeOK, NEW t \in Threads, pc[t] \in AtWork, NEW merged, Resume(t, merged)
  PROVE  WorkOK'
<1>1. CASE Leave(t)
  BY <1>1, LeaveWorkOK
<1>2. CASE \E step \in {"next", "drop"} : Goto(t, step) /\ UNCHANGED <<workVars, opVars>>
  BY <1>2 DEF TypeOK, WorkOK, Goto, Steps, AtWork, Locked, workVars, opVars
<1>3. QED BY <1>1, <1>2 DEF Resume

LEMMA TakeNextWorkOK ==
  ASSUME TypeOK, NEW t \in Threads, todo[t] # Empty,
         NEW step \in {"lock", "drop"}, TakeNext(t, step)
  PROVE  WorkOK'
<1>1. First(todo[t]) \in Pulls
  BY FirstIsLeast DEF TypeOK, Members
<1>2. todo' \in [Threads -> [Pulls -> Nat]]
  BY <1>1 DEF TypeOK, TakeNext
<1>3. QED
  BY <1>1, <1>2 DEF TypeOK, WorkOK, TakeNext, Goto, Steps, opVars

LEMMA RequestTypeOK ==
  ASSUME TypeOK, NEW t \in Threads, Request(t)
  PROVE  TypeOK'
<1> USE DEF Begin, Count, Goto, Steps, AtWork, Locked, NoPull, TypeOK, WorkOK, SharedOK,
            rowVars, listVars, gateVars, refVars, opVars, noteVars, obsVars
<1> SUFFICES WorkOK' /\ SharedOK'
  OBVIOUS
<1> PICK p \in Pulls :
         \/ MergePull(t, p) \/ RequestAuto(t, p) \/ PipelineSucceeds(t, p)
         \/ \E s \in {"open", "closed"} : RequestState(t, p, s)
         \/ \E v \in Reviewers, says \in {"approve", "request_changes"} : Review(t, p, v, says)
  BY DEF Request
<1>1. CASE MergePull(t, p)
  BY <1>1 DEF MergePull
<1>2. CASE RequestAuto(t, p)
  BY <1>2 DEF RequestAuto
<1>3. CASE PipelineSucceeds(t, p)
  BY <1>3 DEF PipelineSucceeds
<1>4. ASSUME NEW s \in {"open", "closed"}, RequestState(t, p, s)
      PROVE  WorkOK' /\ SharedOK'
  BY <1>4 DEF RequestState
<1>5. ASSUME NEW v \in Reviewers, NEW says \in {"approve", "request_changes"},
             Review(t, p, v, says)
      PROVE  WorkOK' /\ SharedOK'
  <2>1. WorkOK'
    BY <1>5 DEF Review
  <2>2. reviews' \in [Pulls -> [Reviewers ->
          [says : {"none", "approve", "request_changes"}, at : Commits]]]
    BY <1>5 DEF Review
  <2>3. QED BY <1>5, <2>1, <2>2 DEF Review
<1>6. QED BY <1>1, <1>2, <1>3, <1>4, <1>5

\* The steps of a thread before executeMerge.
PassStep(t) ==
    \/ Enqueue(t) \/ SetPullAutoMerge(t) \/ AutoMergeForRepo(t) \/ SetPullState(t)
    \/ TryAutoMerge(t) \/ ListMergeQueue(t) \/ NextEntry(t) \/ NextAuto(t) \/ Drop(t)

\* Its steps in executeMerge.
MergeStep(t) ==
    \/ Acquire(t) \/ PassGate(t) \/ RecheckHead(t) \/ CloneMerge(t)
    \/ FFRead(t) \/ FFCheck(t) \/ FFOld(t) \/ Land(t) \/ MarkPullMerged(t) \/ Notify(t)

LEMMA PassStepTypeOK ==
  ASSUME TypeOK, NEW t \in Threads, PassStep(t)
  PROVE  TypeOK'
<1> SUFFICES WorkOK' /\ SharedOK'
  BY DEF TypeOK, WorkOK, SharedOK
<1> USE DEF Goto, Steps, AtWork, Locked, rowVars, listVars, gateVars, refVars, workVars,
            opVars, noteVars, obsVars
<1>1. CASE Enqueue(t)
  <2>1. queue' \in [Pulls -> Nat] /\ lastId' \in Nat
    BY <1>1 DEF Enqueue, TypeOK
  <2>2. WorkOK'
    BY <1>1 DEF Enqueue, TypeOK, WorkOK
  <2>3. QED BY <1>1, <2>1, <2>2 DEF Enqueue, TypeOK, SharedOK
<1>2. CASE SetPullAutoMerge(t)
  BY <1>2 DEF SetPullAutoMerge, TypeOK, WorkOK, SharedOK
<1>3. CASE AutoMergeForRepo(t)
  BY <1>3 DEF AutoMergeForRepo, TypeOK, WorkOK, SharedOK
<1>4. CASE SetPullState(t)
  <2>1. WorkOK'
    BY <1>4, LeaveWorkOK DEF SetPullState
  <2>2. pr[t] \in Pulls /\ want[t] \in {"open", "closed"}
    BY <1>4, Shapes DEF SetPullState
  <2>3. state' \in [Pulls -> {"open", "closed", "merged"}]
    BY <1>4, <2>2, Shapes DEF SetPullState
  <2>4. undone' \in [Pulls -> Nat]
    <3>1. undone' = undone \/ undone' = [undone EXCEPT ![pr[t]] = @ + 1]
      BY <1>4 DEF SetPullState
    <3>2. undone \in [Pulls -> Nat]
      BY Shapes
    <3>3. QED BY <2>2, <3>1, <3>2
  <2>5. SharedOK'
    BY <1>4, <2>3, <2>4 DEF SetPullState, TypeOK, SharedOK
  <2>6. QED BY <2>1, <2>5
<1>5. CASE TryAutoMerge(t)
  <2>1. SharedOK'
    BY <1>5 DEF TryAutoMerge, TypeOK, SharedOK
  <2>2. CASE Leave(t)
    BY <2>1, <2>2, LeaveWorkOK
  <2>3. CASE ~Leave(t)
    <3>1. PICK step \in {"enqueue", "lock"} : Goto(t, step) /\ UNCHANGED <<workVars, opVars>>
      BY <1>5, <2>3 DEF TryAutoMerge
    <3>2. pr[t] \in Pulls
      BY <1>5, Shapes DEF TryAutoMerge
    <3>3. WorkOK'
      BY <3>1, <3>2 DEF TypeOK, WorkOK
    <3>4. QED BY <2>1, <3>3
  <2>4. QED BY <2>2, <2>3
<1>6. CASE ListMergeQueue(t)
  BY <1>6 DEF ListMergeQueue, TypeOK, WorkOK, SharedOK, Members
<1>7. CASE NextEntry(t)
  <2>1. SharedOK'
    BY <1>7 DEF NextEntry, TypeOK, SharedOK
  <2>2. \/ Leave(t)
        \/ todo[t] # Empty /\ TakeNext(t, "lock")
        \/ todo[t] # Empty /\ TakeNext(t, "drop")
    BY <1>7 DEF NextEntry
  <2>3. todo[t] # Empty /\ TakeNext(t, "lock") => WorkOK'
    BY TakeNextWorkOK
  <2>4. todo[t] # Empty /\ TakeNext(t, "drop") => WorkOK'
    BY TakeNextWorkOK
  <2>5. QED BY <2>1, <2>2, <2>3, <2>4, LeaveWorkOK
<1>8. CASE NextAuto(t)
  <2>1. SharedOK'
    BY <1>8 DEF NextAuto, TypeOK, SharedOK
  <2>2. Leave(t) \/ (todo[t] # Empty /\ TakeNext(t, "lock"))
    BY <1>8 DEF NextAuto
  <2>3. todo[t] # Empty /\ TakeNext(t, "lock") => WorkOK'
    BY TakeNextWorkOK
  <2>4. QED BY <2>1, <2>2, <2>3, LeaveWorkOK
<1>9. CASE Drop(t)
  <2>1. pr[t] \in Pulls
    BY <1>9 DEF Drop, TypeOK
  <2>2. queue' \in [Pulls -> Nat] /\ lastId' \in Nat /\ listed' \in [Threads -> SUBSET Pulls]
    BY <1>9, <2>1 DEF Drop, RemoveMergeEntry, TypeOK
  <2>3. QED
    BY <1>9, <2>2 DEF Drop, TypeOK, WorkOK, SharedOK
<1>10. QED
  BY <1>1, <1>2, <1>3, <1>4, <1>5, <1>6, <1>7, <1>8, <1>9 DEF PassStep

LEMMA MergeStepTypeOK ==
  ASSUME TypeOK, NEW t \in Threads, MergeStep(t)
  PROVE  TypeOK'
<1> SUFFICES WorkOK' /\ SharedOK'
  BY DEF TypeOK, WorkOK, SharedOK
<1> USE DEF Goto, Steps, AtWork, Locked, rowVars, listVars, gateVars, refVars, workVars,
            opVars, noteVars, obsVars
\* A return leaves the lock free and the thread where Resume puts it.
<1> DEFINE Returned == \E merged \in BOOLEAN : Return(t, merged)
<1>0. Returned /\ pc[t] \in AtWork => WorkOK' /\ lock' \in Threads \cup {NoThread}
  BY ResumeWorkOK DEF Return
\* A step that does not return leaves the lock and what the thread works on.
<1> DEFINE Stayed(step) == Goto(t, step) /\ UNCHANGED <<lock, workVars, opVars>>
<1>w. ASSUME pc[t] \in AtWork, NEW step \in Locked, Stayed(step)
      PROVE  WorkOK' /\ lock' \in Threads \cup {NoThread}
  BY <1>w DEF TypeOK, WorkOK
<1> HIDE DEF Returned, Stayed
<1>1. CASE Acquire(t)
  BY <1>1 DEF Acquire, TypeOK, WorkOK, SharedOK
<1>2. CASE PassGate(t)
  <2>1. Returned \/ Stayed("recheck")
    BY <1>2 DEF PassGate, Returned, Stayed
  <2>2. pc[t] \in AtWork
    BY <1>2 DEF PassGate
  <2>3. WorkOK' /\ lock' \in Threads \cup {NoThread}
    BY <1>0, <1>w, <2>1, <2>2
  <2>4. QED BY <1>2, <2>3 DEF PassGate, TypeOK, SharedOK
<1>3. CASE RecheckHead(t)
  <2>1. Returned \/ Stayed("clone") \/ Stayed("ffread")
    BY <1>3 DEF RecheckHead, Returned, Stayed
  <2>2. pc[t] \in AtWork
    BY <1>3 DEF RecheckHead
  <2>3. WorkOK' /\ lock' \in Threads \cup {NoThread}
    BY <1>0, <1>w, <2>1, <2>2
  <2>4. QED BY <1>3, <2>3 DEF RecheckHead, TypeOK, SharedOK
<1>4. CASE CloneMerge(t)
  <2>1. pr[t] \in Pulls
    BY <1>4, Shapes DEF CloneMerge
  <2>2. missed' \subseteq Pulls
    BY <1>4, <2>1, Shapes DEF CloneMerge
  <2>3. CASE Returned
    <3>1. WorkOK' /\ lock' \in Threads \cup {NoThread}
      BY <1>0, <1>4, <2>3 DEF CloneMerge
    <3>2. QED BY <1>4, <2>2, <3>1 DEF CloneMerge, TypeOK, SharedOK
  <2>4. CASE ~Returned
    <3>1. target \cup tip[pr[t]] \in Commits
      BY <2>1, Shapes DEF Commits
    <3>2. /\ pc' = [pc EXCEPT ![t] = "land"]
          /\ old' = [old EXCEPT ![t] = target]
          /\ new' = [new EXCEPT ![t] = target \cup tip[pr[t]]]
          /\ UNCHANGED <<lock, workVars, head>>
      BY <1>4, <2>4 DEF CloneMerge, Returned
    <3>3. WorkOK'
      BY <2>1, <3>1, <3>2 DEF TypeOK, WorkOK
    <3>4. QED BY <1>4, <2>2, <3>2, <3>3 DEF CloneMerge, TypeOK, SharedOK
  <2>5. QED BY <2>3, <2>4
<1>5. CASE FFRead(t)
  BY <1>5 DEF FFRead, TypeOK, WorkOK, SharedOK
<1>6. CASE FFCheck(t)
  <2>1. Returned \/ Stayed("ffold")
    BY <1>6 DEF FFCheck, Returned, Stayed
  <2>2. pc[t] \in AtWork
    BY <1>6 DEF FFCheck
  <2>3. WorkOK' /\ lock' \in Threads \cup {NoThread}
    BY <1>0, <1>w, <2>1, <2>2
  <2>4. QED BY <1>6, <2>3 DEF FFCheck, TypeOK, SharedOK
<1>7. CASE FFOld(t)
  BY <1>7 DEF FFOld, TypeOK, WorkOK, SharedOK
<1>8. CASE Land(t)
  <2>1. pc[t] \in AtWork /\ pr[t] \in Pulls /\ head[t] \in Commits /\ new[t] \in Commits
    BY <1>8, Shapes DEF Land
  <2>2. missed' \subseteq Pulls /\ target' \in Commits
    BY <1>8, <2>1, Shapes DEF Land, FreedBy
  <2>3. landed' \subseteq [pull : Pulls, judged : Commits, commit : Commits]
    <3>1. [pull |-> pr[t], judged |-> head[t], commit |-> new[t]]
             \in [pull : Pulls, judged : Commits, commit : Commits]
      BY <2>1
    <3>2. landed' \subseteq landed \cup {[pull |-> pr[t], judged |-> head[t], commit |-> new[t]]}
      BY <1>8 DEF Land
    <3>3. QED BY <3>1, <3>2, Shapes
  <2>4. Returned \/ Stayed("mark")
    BY <1>8 DEF Land, Returned, Stayed
  <2>5. WorkOK' /\ lock' \in Threads \cup {NoThread}
    BY <1>0, <1>w, <2>1, <2>4
  <2>6. QED BY <1>8, <2>2, <2>3, <2>5 DEF Land, TypeOK, SharedOK
<1>9. CASE MarkPullMerged(t)
  <2>1. pc[t] \in AtWork /\ pr[t] \in Pulls /\ new[t] \in Commits
    BY <1>9, Shapes DEF MarkPullMerged
  <2>2. state' \in [Pulls -> {"open", "closed", "merged"}]
    <3>1. state' = state \/ state' = [state EXCEPT ![pr[t]] = "merged"]
      BY <1>9 DEF MarkPullMerged
    <3>2. state \in [Pulls -> {"open", "closed", "merged"}]
      BY Shapes
    <3>3. QED BY <2>1, <3>1, <3>2
  <2>3. headSHA' \in [Pulls -> Commits] /\ autoMerge' \in [Pulls -> BOOLEAN]
    BY <1>9, <2>1, Shapes DEF MarkPullMerged
  <2>4. Returned \/ Stayed("notify")
    BY <1>9 DEF MarkPullMerged, Returned, Stayed
  <2>5. WorkOK' /\ lock' \in Threads \cup {NoThread}
    BY <1>0, <1>w, <2>1, <2>4
  <2>6. QED BY <1>9, <2>2, <2>3, <2>5 DEF MarkPullMerged, TypeOK, SharedOK
<1>10. CASE Notify(t)
  <2>1. Returned /\ pc[t] \in AtWork
    BY <1>10 DEF Notify, Returned
  <2>2. pr[t] \in Pulls /\ notices \in [Pulls -> Nat]
    BY <2>1, Shapes
  <2>3. notices' \in [Pulls -> Nat]
    <3>1. notices' = [notices EXCEPT ![pr[t]] = @ + 1]
      BY <1>10 DEF Notify
    <3>2. notices[pr[t]] \in Nat
      BY <2>2
    <3>3. notices[pr[t]] + 1 \in Nat
      BY <3>2
    <3>4. QED BY <2>2, <3>1, <3>3
  <2>4. WorkOK' /\ lock' \in Threads \cup {NoThread}
    BY <1>0, <2>1
  <2>5. QED BY <1>10, <2>3, <2>4 DEF Notify, TypeOK, SharedOK
<1>11. QED
  BY <1>1, <1>2, <1>3, <1>4, <1>5, <1>6, <1>7, <1>8, <1>9, <1>10 DEF MergeStep

\* The steps of nobody's thread.
OtherStep ==
    \/ \E p \in Pulls : SetPullDraft(p) \/ ClearAutoMerge(p) \/ DequeuePull(p) \/ PushSource(p)
    \/ PushTarget
    \/ \E c \in green : PipelineRestarts(c)

LEMMA NextParts ==
  Next <=> (\E t \in Threads : Request(t) \/ PassStep(t) \/ MergeStep(t)) \/ OtherStep \/ Crash
  BY DEF Next, ThreadStep, PassStep, MergeStep, OtherStep

LEMMA OtherStepTypeOK == ASSUME TypeOK, OtherStep PROVE TypeOK'
<1> SUFFICES WorkOK' /\ SharedOK'
  BY DEF TypeOK, WorkOK, SharedOK
<1>1. WorkOK'
  BY DEF OtherStep, SetPullDraft, ClearAutoMerge, DequeuePull, PushSource, PushTarget,
         PipelineRestarts, workVars, opVars, TypeOK, WorkOK
<1> USE DEF Count, rowVars, listVars, gateVars, refVars, noteVars, obsVars
<1>2. ASSUME NEW p \in Pulls, SetPullDraft(p) PROVE SharedOK'
  BY <1>2 DEF SetPullDraft, TypeOK, SharedOK
<1>3. ASSUME NEW p \in Pulls, ClearAutoMerge(p) PROVE SharedOK'
  BY <1>3 DEF ClearAutoMerge, TypeOK, SharedOK
<1>4. ASSUME NEW p \in Pulls, DequeuePull(p) PROVE SharedOK'
  <2>1. queue' \in [Pulls -> Nat] /\ lastId' \in Nat /\ listed' \in [Threads -> SUBSET Pulls]
    BY <1>4 DEF DequeuePull, RemoveMergeEntry, TypeOK
  <2>2. QED BY <1>4, <2>1 DEF DequeuePull, TypeOK, SharedOK
<1>5. ASSUME NEW p \in Pulls, PushSource(p) PROVE SharedOK'
  <2>1. tip \in [Pulls -> Commits] /\ target \in Commits
    BY DEF TypeOK
  <2>2. Pushed(tip[p], p) \in 0..MaxPushes
    BY <1>5, PushedIsNumber DEF PushSource
  <2>3. <<p, Pushed(tip[p], p)>> \in Changes
    BY <2>2 DEF Changes
  <2>4. PICK upto \in {{}, target} :
          tip' = [tip EXCEPT ![p] = @ \cup {<<p, Pushed(@, p)>>} \cup upto]
    BY <1>5 DEF PushSource
  <2>5. tip[p] \cup {<<p, Pushed(tip[p], p)>>} \cup upto \in Commits
    BY <2>1, <2>3 DEF Commits
  <2>6. tip' \in [Pulls -> Commits]
    BY <2>1, <2>4, <2>5
  <2>7. missed' \subseteq Pulls /\ raced' \in BOOLEAN
    BY <1>5 DEF PushSource, TypeOK
  <2>8. QED BY <1>5, <2>6, <2>7 DEF PushSource, TypeOK, SharedOK
<1>6. ASSUME PushTarget PROVE SharedOK'
  <2>1. Pushed(target, NoPull) \in 0..MaxPushes
    BY <1>6, PushedIsNumber DEF PushTarget
  <2>2. <<NoPull, Pushed(target, NoPull)>> \in Changes
    BY <2>1 DEF Changes
  <2>3. target' \in Commits
    BY <1>6, <2>2 DEF PushTarget, TypeOK, Commits
  <2>4. raced' \in BOOLEAN
    BY <1>6 DEF PushTarget, TypeOK
  <2>5. QED BY <1>6, <2>3, <2>4 DEF PushTarget, TypeOK, SharedOK
<1>7. ASSUME NEW c \in green, PipelineRestarts(c) PROVE SharedOK'
  BY <1>7 DEF PipelineRestarts, TypeOK, SharedOK
<1>8. QED BY <1>1, <1>2, <1>3, <1>4, <1>5, <1>6, <1>7 DEF OtherStep

LEMMA CrashTypeOK == ASSUME TypeOK, Crash PROVE TypeOK'
<1>1. WorkOK'
  BY DEF Crash, WorkOK, Steps, AtWork, Locked, Empty, Commits, NoPull
<1>2. SharedOK'
  <2>1. requests' \in Nat /\ listed' \in [Threads -> SUBSET Pulls] /\ missed' \subseteq Pulls
    <3>1. requests' \in Nat
      BY DEF Crash, Count, TypeOK
    <3>2. listed' \in [Threads -> SUBSET Pulls]
      BY DEF Crash
    <3>3. missed \subseteq Pulls
      BY DEF TypeOK
    <3>4. missed' = missed \cup {p \in Pulls : Given(p)}
      BY DEF Crash
    <3>5. QED BY <3>1, <3>2, <3>3, <3>4
  <2>2. lock' \in Threads \cup {NoThread}
    BY DEF Crash
  <2>3. UNCHANGED <<rowVars, queue, lastId, gateVars, refVars, noteVars, landed, raced>>
    BY DEF Crash
  <2>4. QED
    BY <2>1, <2>2, <2>3 DEF TypeOK, SharedOK, rowVars, gateVars, refVars, noteVars
<1>3. QED BY <1>1, <1>2 DEF TypeOK, WorkOK, SharedOK

LEMMA NextTypeOK == TypeOK /\ [Next]_vars => TypeOK'
<1> SUFFICES ASSUME TypeOK, [Next]_vars PROVE TypeOK'
  OBVIOUS
<1>1. CASE UNCHANGED vars
  BY <1>1 DEF TypeOK, vars, rowVars, listVars, gateVars, refVars, workVars, opVars, noteVars,
              obsVars
<1>2. CASE Next
  BY <1>2, NextParts, RequestTypeOK, PassStepTypeOK, MergeStepTypeOK, OtherStepTypeOK,
     CrashTypeOK
<1>3. QED BY <1>1, <1>2

\* The rows, the refs and the threads of the merge code keep their shape,
\* whatever the number of pull requests, threads and reviewers.
THEOREM TypeCorrect == Spec => []TypeOK
  BY InitTypeOK, NextTypeOK, PTL DEF Spec

-----------------------------------------------------------------------------
(* What a step of a thread does to the control of the threads.              *)

\* The other threads stay where they are and keep what they work on.
OthersWait(t) ==
    \A u \in Threads \ {t} :
        /\ pc'[u] = pc[u] /\ pr'[u] = pr[u] /\ mode'[u] = mode[u] /\ todo'[u] = todo[u]
        /\ head'[u] = head[u] /\ new'[u] = new[u] /\ old'[u] = old[u]

LEMMA LeaveControl ==
  ASSUME TypeOK, NEW t \in Threads, Leave(t)
  PROVE  OthersWait(t) /\ pc'[t] \in {"list", "idle"} /\ mode'[t] = "alone"
  BY DEF Leave, Goto, OthersWait, TypeOK

LEMMA ResumeControl ==
  ASSUME TypeOK, NEW t \in Threads, NEW merged, Resume(t, merged)
  PROVE  OthersWait(t) /\ pc'[t] \notin Locked
<1>1. CASE Leave(t)
  BY <1>1, LeaveControl DEF Locked
<1>2. CASE \E step \in {"next", "drop"} : Goto(t, step) /\ UNCHANGED <<workVars, opVars>>
  BY <1>2 DEF Goto, OthersWait, workVars, opVars, TypeOK, Locked
<1>3. QED BY <1>1, <1>2 DEF Resume

LEMMA TakeNextControl ==
  ASSUME TypeOK, NEW t \in Threads, NEW step, TakeNext(t, step)
  PROVE  OthersWait(t) /\ pc'[t] = step
  BY DEF TakeNext, Goto, OthersWait, opVars, TypeOK

LEMMA RequestControl ==
  ASSUME TypeOK, NEW t \in Threads, Request(t)
  PROVE  /\ OthersWait(t) /\ lock' = lock
         /\ pc[t] \notin Locked /\ pc'[t] \notin Locked
  BY DEF Request, Begin, Goto, MergePull, RequestAuto, PipelineSucceeds, RequestState, Review,
         OthersWait, opVars, TypeOK, Locked

LEMMA PassStepControl ==
  ASSUME TypeOK, NEW t \in Threads, PassStep(t)
  PROVE  /\ OthersWait(t) /\ lock' = lock
         /\ pc[t] \notin Locked /\ pc'[t] \notin Locked
<1>1. lock' = lock /\ pc[t] \notin Locked
  BY DEF PassStep, Enqueue, SetPullAutoMerge, AutoMergeForRepo, SetPullState, TryAutoMerge,
         ListMergeQueue, NextEntry, NextAuto, Drop, Locked
<1>2. CASE Leave(t)
  BY <1>1, <1>2, LeaveControl DEF Locked
<1>3. CASE TakeNext(t, "lock") \/ TakeNext(t, "drop")
  BY <1>1, <1>3, TakeNextControl DEF Locked
<1>4. CASE ~Leave(t) /\ ~TakeNext(t, "lock") /\ ~TakeNext(t, "drop")
  <2>1. PICK step \in {"list", "try", "next", "enqueue", "lock"} : Goto(t, step)
    BY <1>4 DEF PassStep, Enqueue, SetPullAutoMerge, AutoMergeForRepo, SetPullState,
                TryAutoMerge, ListMergeQueue, NextEntry, NextAuto, Drop
  <2>2. /\ pr' = pr /\ head' = head /\ new' = new /\ old' = old
        /\ mode' = mode \/ \E m : mode' = [mode EXCEPT ![t] = m]
        /\ todo' = todo \/ \E l : todo' = [todo EXCEPT ![t] = l]
    BY <1>4 DEF PassStep, Enqueue, SetPullAutoMerge, AutoMergeForRepo, SetPullState,
                TryAutoMerge, ListMergeQueue, NextEntry, NextAuto, Drop, workVars, opVars
  <2>3. QED BY <1>1, <2>1, <2>2 DEF Goto, OthersWait, Locked, TypeOK
<1>5. QED BY <1>2, <1>3, <1>4

\* In executeMerge a thread takes the lock, keeps it, or gives it back.
LEMMA MergeStepControl ==
  ASSUME TypeOK, NEW t \in Threads, MergeStep(t)
  PROVE  /\ OthersWait(t)
         /\ \/ lock = NoThread /\ lock' = t /\ pc[t] = "lock" /\ pc'[t] = "gate"
            \/ lock' = lock /\ pc[t] \in Locked
            \/ lock' = NoThread /\ pc[t] \in Locked /\ pc'[t] \notin Locked
<1>1. CASE \E merged \in BOOLEAN : Return(t, merged)
  <2>1. OthersWait(t) /\ lock' = NoThread /\ pc'[t] \notin Locked
    BY <1>1, ResumeControl DEF Return
  <2>2. CASE Acquire(t)
    BY <2>1, <2>2 DEF Acquire, Goto, TypeOK, Locked
  <2>3. CASE ~Acquire(t)
    <3>1. pc[t] \in Locked
      BY <2>3 DEF MergeStep, PassGate, RecheckHead, CloneMerge, FFRead, FFCheck, FFOld, Land,
                  MarkPullMerged, Notify, Locked
    <3>2. QED BY <2>1, <3>1
  <2>4. QED BY <2>2, <2>3
<1>2. CASE \A merged \in BOOLEAN : ~Return(t, merged)
  <2>1. PICK step \in Locked : Goto(t, step)
    BY <1>2 DEF MergeStep, Acquire, PassGate, RecheckHead, CloneMerge, FFRead, FFCheck, FFOld,
                Land, MarkPullMerged, Notify, Locked
  <2>2. /\ UNCHANGED workVars
        /\ head' = head \/ \E c : head' = [head EXCEPT ![t] = c]
        /\ new' = new \/ \E c : new' = [new EXCEPT ![t] = c]
        /\ old' = old \/ \E c : old' = [old EXCEPT ![t] = c]
    BY <1>2 DEF MergeStep, Acquire, PassGate, RecheckHead, CloneMerge, FFRead, FFCheck, FFOld,
                Land, MarkPullMerged, Notify, opVars
  <2>3. OthersWait(t) /\ pc'[t] = step
    BY <2>1, <2>2 DEF Goto, OthersWait, workVars, TypeOK
  <2>4. \/ lock = NoThread /\ lock' = t /\ pc[t] = "lock" /\ pc'[t] = "gate"
        \/ lock' = lock /\ pc[t] \in Locked
    BY <1>2 DEF MergeStep, Acquire, PassGate, RecheckHead, CloneMerge, FFRead, FFCheck, FFOld,
                Land, MarkPullMerged, Notify, Locked, Goto, TypeOK
  <2>5. QED BY <2>3, <2>4
<1>3. QED BY <1>1, <1>2

\* Who is inside executeMerge holds the lock of the branch.
LockHeld == \A t \in Threads : pc[t] \in Locked => lock = t

LEMMA LockHeldInit == Init => LockHeld
  BY DEF Init, LockHeld, Locked

LEMMA LockHeldNext == TypeOK /\ LockHeld /\ [Next]_vars => LockHeld'
<1> SUFFICES ASSUME TypeOK, LockHeld, [Next]_vars PROVE LockHeld'
  OBVIOUS
<1>1. CASE UNCHANGED vars
  BY <1>1 DEF LockHeld, vars
<1>2. CASE OtherStep
  BY <1>2 DEF OtherStep, SetPullDraft, ClearAutoMerge, DequeuePull, PushSource, PushTarget,
              PipelineRestarts, LockHeld
<1>3. ASSUME NEW t \in Threads, Request(t) \/ PassStep(t) PROVE LockHeld'
  BY <1>3, RequestControl, PassStepControl DEF LockHeld, OthersWait
<1>4. ASSUME NEW t \in Threads, MergeStep(t) PROVE LockHeld'
  BY <1>4, MergeStepControl DEF LockHeld, OthersWait, Locked
<1>5. CASE Crash
  BY <1>5 DEF Crash, LockHeld, Locked
<1>6. QED BY <1>1, <1>2, <1>3, <1>4, <1>5, NextParts

-----------------------------------------------------------------------------
(* One announcement.                                                        *)

Announcing(p) == \E t \in Threads : pc[t] = "notify" /\ pr[t] = p

\* AnnouncedOnce, with the announcement under way counted once.
NotesMatch ==
    \A p \in Pulls :
        notices[p] + (IF Announcing(p) THEN 1 ELSE 0)
            <= undone[p] + (IF state[p] = "merged" THEN 1 ELSE 0)

LEMMA NotesMatchInit == Init => NotesMatch
  BY DEF Init, NotesMatch, Announcing

\* A step that neither begins nor ends an announcement, and leaves alone what
\* was announced and what is merged.
LEMMA NotesMatchKept ==
  ASSUME TypeOK, NotesMatch, NEW t \in Threads, OthersWait(t),
         pc[t] # "notify", pc'[t] # "notify", UNCHANGED noteVars,
         \A p \in Pulls : state'[p] = "merged" <=> state[p] = "merged"
  PROVE  NotesMatch'
<1>1. \A p \in Pulls : Announcing(p)' <=> Announcing(p)
  BY DEF OthersWait, Announcing
<1>2. QED BY <1>1 DEF NotesMatch, noteVars

LEMMA NotesMatchNext == TypeOK /\ LockHeld /\ NotesMatch /\ [Next]_vars => NotesMatch'
<1> SUFFICES ASSUME TypeOK, LockHeld, NotesMatch, [Next]_vars PROVE NotesMatch'
  OBVIOUS
<1>1. CASE UNCHANGED vars
  BY <1>1 DEF NotesMatch, Announcing, vars, rowVars, workVars, noteVars
<1>2. CASE OtherStep
  BY <1>2 DEF OtherStep, SetPullDraft, ClearAutoMerge, DequeuePull, PushSource, PushTarget,
              PipelineRestarts, NotesMatch, Announcing, rowVars, workVars, noteVars
<1>3. ASSUME NEW t \in Threads, Request(t) PROVE NotesMatch'
  <2>1. UNCHANGED <<state, noteVars>>
    BY <1>3 DEF Request, MergePull, RequestAuto, PipelineSucceeds, RequestState, Review, rowVars
  <2>2. QED BY <1>3, <2>1, RequestControl, NotesMatchKept DEF Locked
<1>4. ASSUME NEW t \in Threads, PassStep(t) PROVE NotesMatch'
  <2>1. CASE SetPullState(t)
    <3>1. \A p \in Pulls : Announcing(p)' <=> Announcing(p)
      BY <1>4, PassStepControl DEF OthersWait, Announcing, Locked
    <3>2. pr[t] \in Pulls /\ want[t] \in {"open", "closed"}
      BY <2>1, Shapes DEF SetPullState, AtWork
    <3>3. /\ state \in [Pulls -> {"open", "closed", "merged"}]
          /\ notices \in [Pulls -> Nat] /\ undone \in [Pulls -> Nat]
      BY <1>4, Shapes
    <3>4. notices' = notices
      BY <2>1 DEF SetPullState
    <3>5. ASSUME NEW p \in Pulls
          PROVE  undone'[p] + (IF state'[p] = "merged" THEN 1 ELSE 0)
                    >= undone[p] + (IF state[p] = "merged" THEN 1 ELSE 0)
      BY <2>1, <3>2, <3>3 DEF SetPullState
    <3>6. \A p \in Pulls : undone'[p] \in Nat
      BY <2>1, <3>2, <3>3 DEF SetPullState
    <3>7. QED BY <3>1, <3>3, <3>4, <3>5, <3>6 DEF NotesMatch
  <2>2. CASE ~SetPullState(t)
    <3>1. UNCHANGED <<state, noteVars>>
      BY <1>4, <2>2 DEF PassStep, Enqueue, SetPullAutoMerge, AutoMergeForRepo, TryAutoMerge,
                        ListMergeQueue, NextEntry, NextAuto, Drop, rowVars
    <3>2. QED BY <1>4, <3>1, PassStepControl, NotesMatchKept DEF Locked
  <2>3. QED BY <2>1, <2>2
<1>5. ASSUME NEW t \in Threads, MergeStep(t) PROVE NotesMatch'
  <2>1. OthersWait(t)
    BY <1>5, MergeStepControl
  <2>2. CASE MarkPullMerged(t) /\ state[pr[t]] = "open"
    <3>1. pr[t] \in Pulls /\ state \in [Pulls -> {"open", "closed", "merged"}]
      BY <2>2, Shapes DEF MarkPullMerged, AtWork, Locked
    <3>2. /\ state' = [state EXCEPT ![pr[t]] = "merged"]
          /\ pr' = pr /\ pc[t] = "mark" /\ UNCHANGED noteVars
      BY <2>2 DEF MarkPullMerged, workVars
    <3>3. ~Announcing(pr[t])
      BY <3>2 DEF Announcing, LockHeld, Locked
    <3>4. \A p \in Pulls \ {pr[t]} : Announcing(p)' <=> Announcing(p)
      BY <2>1, <3>2 DEF OthersWait, Announcing
    <3>5. notices \in [Pulls -> Nat] /\ undone \in [Pulls -> Nat]
      BY <1>5, Shapes
    <3>6. ASSUME NEW p \in Pulls
          PROVE  notices'[p] + (IF Announcing(p)' THEN 1 ELSE 0)
                    <= undone'[p] + (IF state'[p] = "merged" THEN 1 ELSE 0)
      <4>1. CASE p = pr[t]
        <5>1. notices[p] <= undone[p]
          BY <2>2, <3>3, <3>5, <4>1 DEF NotesMatch
        <5>2. state'[p] = "merged" /\ notices'[p] = notices[p] /\ undone'[p] = undone[p]
          BY <3>1, <3>2, <4>1 DEF noteVars
        <5>3. notices[p] \in Nat /\ undone[p] \in Nat
          BY <3>5
        <5>4. notices[p] + (IF Announcing(p)' THEN 1 ELSE 0) <= undone[p] + 1
          BY <5>1, <5>3
        <5>5. QED BY <5>2, <5>4
      <4>2. CASE p # pr[t]
        BY <3>1, <3>2, <3>4, <4>2 DEF NotesMatch, noteVars
      <4>3. QED BY <4>1, <4>2
    <3>7. QED BY <3>6 DEF NotesMatch
  <2>3. CASE Notify(t)
    <3>1. pr[t] \in Pulls
      BY <2>3, Shapes DEF Notify, AtWork, Locked
    <3>2. pc[t] = "notify" /\ pc'[t] # "notify"
      BY <2>3, ResumeControl DEF Notify, Return, Locked
    <3>3. notices' = [notices EXCEPT ![pr[t]] = @ + 1] /\ state' = state /\ undone' = undone
      BY <2>3 DEF Notify, rowVars
    <3>4. \A p \in Pulls : ~Announcing(p)'
      BY <2>1, <3>2 DEF OthersWait, Announcing, LockHeld, Locked
    <3>5. Announcing(pr[t])
      BY <3>2 DEF Announcing
    <3>6. notices \in [Pulls -> Nat] /\ undone \in [Pulls -> Nat]
      BY <1>5, Shapes
    <3>7. ASSUME NEW p \in Pulls
          PROVE  notices'[p] + (IF Announcing(p)' THEN 1 ELSE 0)
                    <= undone'[p] + (IF state'[p] = "merged" THEN 1 ELSE 0)
      <4>1. CASE p = pr[t]
        BY <3>1, <3>3, <3>4, <3>5, <3>6, <4>1 DEF NotesMatch
      <4>2. CASE p # pr[t]
        BY <3>1, <3>3, <3>4, <3>6, <4>2 DEF NotesMatch
      <4>3. QED BY <4>1, <4>2
    <3>8. QED BY <3>7 DEF NotesMatch
  <2>4. CASE ~Notify(t) /\ ~(MarkPullMerged(t) /\ state[pr[t]] = "open")
    <3>1. UNCHANGED <<state, noteVars>> /\ pc[t] # "notify"
      BY <1>5, <2>4 DEF MergeStep, Acquire, PassGate, RecheckHead, CloneMerge, FFRead, FFCheck,
                        FFOld, Land, MarkPullMerged, rowVars
    <3>2. (\E merged \in BOOLEAN : Return(t, merged)) => pc'[t] # "notify"
      BY <1>5, ResumeControl DEF Return, Locked
    <3>3. \/ \E merged \in BOOLEAN : Return(t, merged)
          \/ \E step \in Locked \ {"notify"} : Goto(t, step)
      BY <1>5, <2>4 DEF MergeStep, Acquire, PassGate, RecheckHead, CloneMerge, FFRead, FFCheck,
                        FFOld, Land, MarkPullMerged, Locked
    <3>4. pc'[t] # "notify"
      BY <3>2, <3>3 DEF Goto, TypeOK
    <3>5. QED BY <1>5, <2>1, <3>1, <3>4, NotesMatchKept
  <2>5. QED BY <2>2, <2>3, <2>4
\* A crash loses an announcement at most.
<1>6. CASE Crash
  <2>1. \A p \in Pulls : ~Announcing(p)'
    BY <1>6 DEF Crash, Announcing
  <2>2. UNCHANGED <<state, notices, undone>>
    BY <1>6 DEF Crash, rowVars, noteVars
  <2>3. \A p \in Pulls : notices[p] \in Nat /\ undone[p] \in Nat
    BY DEF TypeOK
  <2>4. QED BY <2>1, <2>2, <2>3 DEF NotesMatch
<1>7. QED BY <1>1, <1>2, <1>3, <1>4, <1>5, <1>6, NextParts

LEMMA NotesMatchAnnouncedOnce == LockHeld /\ NotesMatch => AnnouncedOnce
<1> SUFFICES ASSUME LockHeld, NotesMatch, NEW p \in Pulls
             PROVE  notices[p] + Cardinality({t \in Threads : pc[t] = "notify" /\ pr[t] = p})
                       <= undone[p] + (IF state[p] = "merged" THEN 1 ELSE 0)
  BY DEF AnnouncedOnce
<1> DEFINE A == {t \in Threads : pc[t] = "notify" /\ pr[t] = p}
<1>1. A \subseteq {lock}
  BY DEF LockHeld, Locked
<1>2. CASE A = {}
  <2>1. Cardinality(A) = 0 /\ ~Announcing(p)
    BY <1>2, FS_EmptySet DEF Announcing
  <2>2. QED BY <2>1 DEF NotesMatch
<1>3. CASE A # {}
  <2>1. A = {lock}
    BY <1>1, <1>3
  <2>2. Cardinality(A) = 1 /\ Announcing(p)
    BY <2>1, FS_Singleton DEF Announcing
  <2>3. QED BY <2>2 DEF NotesMatch
<1>4. QED BY <1>2, <1>3

\* F-03, for every number of threads and pull requests: a merged pull request
\* is announced once, however many merges and overwrites race.
THEOREM MergeAnnouncedOnce == Spec => []AnnouncedOnce
<1> DEFINE Inv == TypeOK /\ LockHeld /\ NotesMatch
<1>1. Init => Inv
  BY InitTypeOK, LockHeldInit, NotesMatchInit
<1>2. Inv /\ [Next]_vars => Inv'
  BY NextTypeOK, LockHeldNext, NotesMatchNext
<1>3. Inv => AnnouncedOnce
  BY NotesMatchAnnouncedOnce
<1>4. QED BY <1>1, <1>2, <1>3, PTL DEF Spec

-----------------------------------------------------------------------------
(* What was merged is on the target.                                        *)

Kept(p) == state[p] = "merged" => headSHA[p] \subseteq target

\* How far a thread is with landing new[t], if no push came in between: what
\* was resolved is what is checked, and then contains what it replaces.
Prepared(t) ==
    /\ pc[t] = "ffcheck" => new[t] = tip[pr[t]]
    /\ pc[t] = "ffold" => target \subseteq new[t]
    /\ pc[t] = "land" => old[t] \subseteq new[t]
    /\ pc[t] = "mark" => new[t] \subseteq target

Landing == raced \/ ((\A p \in Pulls : Kept(p)) /\ (\A t \in Threads : Prepared(t)))

LEMMA LandingInit == Init => Landing
  BY DEF Init, Landing, Kept, Prepared

\* A step that moves no ref and merges no row only has to prepare its own thread.
LEMMA LandingKept ==
  ASSUME TypeOK, Landing, NEW t \in Threads, OthersWait(t),
         UNCHANGED <<headSHA, refVars, raced>>,
         \A p \in Pulls : state'[p] = "merged" => state[p] = "merged",
         raced \/ Prepared(t)'
  PROVE  Landing'
<1> SUFFICES ASSUME ~raced PROVE Landing'
  BY DEF Landing
<1>1. \A p \in Pulls : Kept(p)'
  BY DEF Landing, Kept, refVars
<1>2. \A u \in Threads \ {t} : Prepared(u)'
  BY DEF Landing, Prepared, OthersWait, refVars
<1>3. QED BY <1>1, <1>2 DEF Landing

LEMMA LandingNext == TypeOK /\ LockHeld /\ Landing /\ [Next]_vars => Landing'
<1> SUFFICES ASSUME TypeOK, LockHeld, Landing, [Next]_vars PROVE Landing'
  OBVIOUS
<1>1. CASE UNCHANGED vars
  BY <1>1 DEF Landing, Kept, Prepared, vars, rowVars, refVars, workVars, opVars, obsVars
<1>2. ASSUME NEW p \in Pulls, SetPullDraft(p) \/ ClearAutoMerge(p) \/ DequeuePull(p)
      PROVE  Landing'
  BY <1>2 DEF SetPullDraft, ClearAutoMerge, DequeuePull, Landing, Kept, Prepared, rowVars,
              refVars, workVars, opVars, obsVars
<1>3. ASSUME NEW c \in green, PipelineRestarts(c) PROVE Landing'
  BY <1>3 DEF PipelineRestarts, Landing, Kept, Prepared, rowVars, refVars, workVars, opVars,
              obsVars
<1>4. ASSUME NEW p \in Pulls, PushSource(p) PROVE Landing'
  <2> SUFFICES ASSUME ~raced' PROVE Landing'
    BY DEF Landing
  <2>1. ~raced /\ \A t \in Threads : ~(pc[t] = "ffcheck" /\ pr[t] = p)
    BY <1>4 DEF PushSource
  <2>2. \A q \in Pulls \ {p} : tip'[q] = tip[q]
    BY <1>4 DEF PushSource, TypeOK
  <2>3. UNCHANGED <<rowVars, target, pc, workVars, opVars>>
    BY <1>4 DEF PushSource
  <2>4. \A t \in Threads : pc[t] = "ffcheck" => pr[t] \in Pulls \ {p}
    BY <2>1, Shapes DEF AtWork, Locked
  <2>5. \A t \in Threads : Prepared(t)'
    BY <2>1, <2>2, <2>3, <2>4 DEF Landing, Prepared, workVars, opVars
  <2>6. \A q \in Pulls : Kept(q)'
    BY <2>1, <2>3 DEF Landing, Kept, rowVars
  <2>7. QED BY <2>5, <2>6 DEF Landing
<1>5. ASSUME PushTarget PROVE Landing'
  <2> SUFFICES ASSUME ~raced' PROVE Landing'
    BY DEF Landing
  <2>1. ~raced /\ \A t \in Threads : pc[t] # "ffold"
    BY <1>5 DEF PushTarget
  <2>2. UNCHANGED <<rowVars, tip, pc, workVars, opVars>> /\ target \subseteq target'
    BY <1>5 DEF PushTarget
  <2>3. \A t \in Threads : Prepared(t)'
    BY <2>1, <2>2 DEF Landing, Prepared, workVars, opVars
  <2>4. \A q \in Pulls : Kept(q)'
    BY <2>1, <2>2 DEF Landing, Kept, rowVars
  <2>5. QED BY <2>3, <2>4 DEF Landing
<1>6. ASSUME NEW t \in Threads, Request(t) PROVE Landing'
  <2>1. UNCHANGED <<rowVars, refVars, raced>>
    BY <1>6 DEF Request, MergePull, RequestAuto, PipelineSucceeds, RequestState, Review, obsVars
  <2>2. Prepared(t)'
    BY <1>6, RequestControl DEF Prepared, Locked
  <2>3. QED BY <1>6, <2>1, <2>2, RequestControl, LandingKept DEF rowVars
<1>7. ASSUME NEW t \in Threads, PassStep(t) PROVE Landing'
  <2>1. UNCHANGED <<headSHA, refVars, raced>>
    BY <1>7 DEF PassStep, Enqueue, SetPullAutoMerge, AutoMergeForRepo, SetPullState, TryAutoMerge,
                ListMergeQueue, NextEntry, NextAuto, Drop, rowVars, obsVars
  <2>2. \A p \in Pulls : state'[p] = "merged" => state[p] = "merged"
    <3>1. CASE SetPullState(t)
      BY <3>1, Shapes DEF SetPullState
    <3>2. CASE ~SetPullState(t)
      BY <1>7, <3>2 DEF PassStep, Enqueue, SetPullAutoMerge, AutoMergeForRepo, TryAutoMerge,
                        ListMergeQueue, NextEntry, NextAuto, Drop, rowVars
    <3>3. QED BY <3>1, <3>2
  <2>3. Prepared(t)'
    BY <1>7, PassStepControl DEF Prepared, Locked
  <2>4. QED BY <1>7, <2>1, <2>2, <2>3, PassStepControl, LandingKept
<1>8. ASSUME NEW t \in Threads, MergeStep(t) PROVE Landing'
  <2> SUFFICES ASSUME ~raced PROVE Landing'
    BY <1>8 DEF MergeStep, Acquire, PassGate, RecheckHead, CloneMerge, FFRead, FFCheck, FFOld,
                Land, MarkPullMerged, Notify, obsVars, Landing
  <2>1. OthersWait(t) /\ Prepared(t) /\ \A p \in Pulls : Kept(p)
    BY <1>8, MergeStepControl DEF Landing
  <2>2. pc[t] \in Locked => \A u \in Threads \ {t} : pc[u] \notin Locked
    BY DEF LockHeld
  <2>3. (\E merged \in BOOLEAN : Return(t, merged)) => Prepared(t)'
    BY ResumeControl DEF Return, Prepared, Locked
  <2>4. CASE Land(t) /\ target = old[t]
    <3>1. /\ pc[t] = "land" /\ pc' = [pc EXCEPT ![t] = "mark"]
          /\ target' = new[t] /\ UNCHANGED <<rowVars, new, tip>>
      BY <2>4 DEF Land, Goto, opVars
    <3>2. target \subseteq target'
      BY <2>1, <2>4, <3>1 DEF Prepared
    <3>3. \A p \in Pulls : Kept(p)'
      BY <2>1, <3>1, <3>2 DEF Kept, rowVars
    <3>4. Prepared(t)'
      BY <3>1 DEF Prepared, TypeOK
    <3>5. \A u \in Threads \ {t} : Prepared(u)'
      BY <2>1, <2>2, <3>1 DEF Prepared, OthersWait, Locked
    <3>6. QED BY <3>3, <3>4, <3>5 DEF Landing
  <2>5. CASE MarkPullMerged(t) /\ state[pr[t]] = "open"
    <3>1. /\ pc[t] = "mark" /\ pc' = [pc EXCEPT ![t] = "notify"]
          /\ state' = [state EXCEPT ![pr[t]] = "merged"]
          /\ headSHA' = [headSHA EXCEPT ![pr[t]] = new[t]]
          /\ UNCHANGED <<new, refVars>>
      BY <2>5 DEF MarkPullMerged, Goto, opVars
    <3>2. /\ state \in [Pulls -> {"open", "closed", "merged"}]
          /\ headSHA \in [Pulls -> Commits]
      BY <1>8, Shapes
    <3>3. new[t] \subseteq target
      BY <2>1, <3>1 DEF Prepared
    <3>4. \A p \in Pulls : Kept(p)'
      BY <2>1, <3>1, <3>2, <3>3 DEF Kept, refVars
    <3>5. Prepared(t)'
      BY <3>1 DEF Prepared, TypeOK
    <3>6. \A u \in Threads \ {t} : Prepared(u)'
      BY <2>1, <2>2, <3>1 DEF Prepared, OthersWait, Locked
    <3>7. QED BY <3>4, <3>5, <3>6 DEF Landing
  <2>6. CASE ~(Land(t) /\ target = old[t]) /\ ~(MarkPullMerged(t) /\ state[pr[t]] = "open")
    <3>1. UNCHANGED <<state, headSHA, refVars, raced>>
      BY <1>8, <2>6 DEF MergeStep, Acquire, PassGate, RecheckHead, CloneMerge, FFRead, FFCheck,
                        FFOld, Land, MarkPullMerged, Notify, rowVars, obsVars, refVars
    <3>2. Prepared(t)'
      <4>1. CASE FFRead(t)
        BY <4>1, <3>1 DEF FFRead, Goto, Prepared, TypeOK, workVars, refVars
      <4>2. CASE FFCheck(t)
        BY <2>1, <2>3, <4>2, <3>1 DEF FFCheck, Goto, Prepared, TypeOK, opVars, refVars
      <4>3. CASE FFOld(t)
        BY <2>1, <4>3 DEF FFOld, Goto, Prepared, TypeOK
      <4>4. CASE CloneMerge(t)
        <5>1. CASE \E merged \in BOOLEAN : Return(t, merged)
          BY <2>3, <5>1
        <5>2. CASE ~(\E merged \in BOOLEAN : Return(t, merged))
          <6>1. /\ pc' = [pc EXCEPT ![t] = "land"]
                /\ old' = [old EXCEPT ![t] = target]
                /\ new' = [new EXCEPT ![t] = target \cup tip[pr[t]]]
            BY <4>4, <5>2 DEF CloneMerge, Goto
          <6>2. QED BY <6>1 DEF Prepared, TypeOK
        <5>3. QED BY <5>1, <5>2
      <4>5. CASE ~FFRead(t) /\ ~FFCheck(t) /\ ~FFOld(t) /\ ~CloneMerge(t)
        <5>1. \/ \E merged \in BOOLEAN : Return(t, merged)
              \/ \E step \in {"gate", "recheck", "clone", "ffread"} : Goto(t, step)
          BY <1>8, <2>6, <4>5 DEF MergeStep, Acquire, PassGate, RecheckHead, Land,
                                  MarkPullMerged, Notify
        <5>2. QED BY <2>3, <5>1 DEF Goto, Prepared, TypeOK
      <4>6. QED BY <4>1, <4>2, <4>3, <4>4, <4>5
    <3>3. QED BY <1>8, <2>1, <3>1, <3>2, LandingKept
  <2>7. QED BY <2>4, <2>5, <2>6
<1>9. CASE Crash
  BY <1>9 DEF Crash, Landing, Kept, Prepared, rowVars, refVars
<1>10. QED BY <1>1, <1>2, <1>3, <1>4, <1>5, <1>6, <1>7, <1>8, <1>9, NextParts DEF OtherStep

\* What a merged row names is on the target branch, for every number of merges
\* in flight, as long as no push hits a window of mergeFastForward.
THEOREM MergedStaysOnTarget == Spec => []MergedIsOnTarget
<1> DEFINE Inv == TypeOK /\ LockHeld /\ Landing
<1>1. Init => Inv
  BY InitTypeOK, LockHeldInit, LandingInit
<1>2. Inv /\ [Next]_vars => Inv'
  BY NextTypeOK, LockHeldNext, LandingNext
<1>3. Inv => MergedIsOnTarget
  BY DEF Landing, Kept, MergedIsOnTarget
<1>4. QED BY <1>1, <1>2, <1>3, PTL DEF Spec

-----------------------------------------------------------------------------
(* The order of the merge queue.                                            *)

\* Ids are handed out in order and never twice.
IdsFresh ==
    /\ \A p \in Pulls : queue[p] <= lastId
    /\ \A p, q \in Pulls : queue[p] # 0 /\ queue[p] = queue[q] => p = q

\* What a thread listed is still queued, ahead of whatever came after.
ListedFirst(t) ==
    \A p \in listed[t] :
        queue[p] # 0 /\ \A q \in Pulls \ listed[t] : queue[q] # 0 => queue[p] < queue[q]

InPass == {"next", "lock", "drop"} \cup Locked

\* The rest of the list still shows the ids of the queue, and the pull request
\* at hand is ahead of the rest.
PassOrder(t) ==
    mode[t] = "queue" =>
        /\ pc[t] \in InPass
        /\ \A q \in listed[t] : pc[t] = "next" \/ q # pr[t] => todo[t][q] = queue[q]
        /\ pc[t] # "next" /\ pr[t] \in listed[t] =>
              \A q \in listed[t] : queue[pr[t]] <= queue[q]

Ordered == IdsFresh /\ \A t \in Threads : ListedFirst(t) /\ PassOrder(t)

LEMMA OrderedInit == Init => Ordered
  BY DEF Init, Ordered, IdsFresh, ListedFirst, PassOrder, Empty

\* The entries a thread listed and that are still there keep their ids.
ListsShrink ==
    \A u \in Threads :
        listed'[u] \subseteq listed[u] /\ \A p \in listed'[u] : queue'[p] = queue[p]

LEMMA PassOrderKept ==
  ASSUME Ordered, ListsShrink, NEW u \in Threads,
         pc'[u] = pc[u] /\ mode'[u] = mode[u] /\ todo'[u] = todo[u] /\ pr'[u] = pr[u]
  PROVE  PassOrder(u)'
<1> SUFFICES ASSUME mode[u] = "queue" PROVE PassOrder(u)'
  BY DEF PassOrder
<1>1. /\ pc[u] \in InPass
      /\ \A q \in listed[u] : pc[u] = "next" \/ q # pr[u] => todo[u][q] = queue[q]
      /\ pc[u] # "next" /\ pr[u] \in listed[u] => \A q \in listed[u] : queue[pr[u]] <= queue[q]
  BY DEF Ordered, PassOrder
<1>2. \A q \in listed'[u] : q \in listed[u] /\ queue'[q] = queue[q]
  BY DEF ListsShrink
<1>3. \A q \in listed'[u] : pc'[u] = "next" \/ q # pr'[u] => todo'[u][q] = queue'[q]
  BY <1>1, <1>2
<1>4. pc'[u] # "next" /\ pr'[u] \in listed'[u] =>
        \A q \in listed'[u] : queue'[pr'[u]] <= queue'[q]
  BY <1>1, <1>2
<1>5. QED BY <1>1, <1>3, <1>4 DEF PassOrder, InPass

LEMMA EnqueueOrdered ==
  ASSUME TypeOK, Ordered, NEW t \in Threads, Enqueue(t)
  PROVE  IdsFresh' /\ ListsShrink /\ \A u \in Threads : ListedFirst(u)'
<1>1. pr[t] \in Pulls /\ listed' = listed /\ \A u \in Threads : listed[u] \subseteq Pulls
  BY Shapes DEF Enqueue, AtWork, TypeOK
<1>2. queue \in [Pulls -> Nat] /\ lastId \in Nat
  BY DEF TypeOK
<1>3. IdsFresh /\ \A u \in Threads : ListedFirst(u)
  BY DEF Ordered
<1>4. CASE queue' = queue /\ lastId' = lastId
  BY <1>1, <1>3, <1>4 DEF IdsFresh, ListsShrink, ListedFirst
<1>5. CASE queue[pr[t]] = 0 /\ lastId' = lastId + 1 /\ queue' = [queue EXCEPT ![pr[t]] = lastId']
  <2>1. queue'[pr[t]] = lastId + 1 /\ \A q \in Pulls \ {pr[t]} : queue'[q] = queue[q]
    BY <1>1, <1>2, <1>5
  <2>2. \A q \in Pulls : queue[q] \in Nat /\ queue[q] < lastId + 1
    BY <1>2, <1>3 DEF IdsFresh
  <2>3. IdsFresh'
    BY <1>2, <1>3, <1>5, <2>1, <2>2 DEF IdsFresh
  <2>4. \A u \in Threads : pr[t] \notin listed[u]
    BY <1>3, <1>5 DEF ListedFirst
  <2>5. ListsShrink
    BY <1>1, <2>1, <2>4 DEF ListsShrink
  <2>6. ASSUME NEW u \in Threads, NEW p \in listed[u]
        PROVE  queue'[p] # 0 /\ \A q \in Pulls \ listed[u] : queue'[q] # 0 => queue'[p] < queue'[q]
    <3>1. p \in Pulls /\ queue'[p] = queue[p] /\ queue[p] # 0
      BY <1>1, <1>3, <2>1, <2>4 DEF ListedFirst
    <3>2. ASSUME NEW q \in Pulls \ listed[u], queue'[q] # 0 PROVE queue'[p] < queue'[q]
      <4>1. CASE q = pr[t]
        BY <2>1, <2>2, <3>1, <4>1
      <4>2. CASE q # pr[t]
        BY <1>3, <2>1, <3>1, <3>2, <4>2 DEF ListedFirst
      <4>3. QED BY <4>1, <4>2
    <3>3. QED BY <3>1, <3>2
  <2>7. QED BY <1>1, <2>3, <2>5, <2>6 DEF ListedFirst
<1>6. QED BY <1>4, <1>5 DEF Enqueue

LEMMA RemoveOrdered ==
  ASSUME TypeOK, Ordered, NEW p \in Pulls, RemoveMergeEntry(p)
  PROVE  IdsFresh' /\ ListsShrink /\ \A u \in Threads : ListedFirst(u)'
<1>1. queue'[p] = 0 /\ \A q \in Pulls \ {p} : queue'[q] = queue[q]
  BY DEF RemoveMergeEntry, TypeOK
<1>2. \A u \in Threads : listed'[u] = listed[u] \ {p} /\ listed[u] \subseteq Pulls
  BY DEF RemoveMergeEntry, TypeOK
<1>3. lastId' = lastId /\ lastId \in Nat
  BY DEF RemoveMergeEntry, TypeOK
<1>4. IdsFresh'
  <2>1. \A q \in Pulls : queue'[q] <= lastId'
    BY <1>1, <1>3 DEF Ordered, IdsFresh
  <2>2. \A q, r \in Pulls : queue'[q] # 0 /\ queue'[q] = queue'[r] => q = r
    BY <1>1 DEF Ordered, IdsFresh
  <2>3. QED BY <2>1, <2>2 DEF IdsFresh
<1>5. ListsShrink
  <2> SUFFICES ASSUME NEW u \in Threads
               PROVE  listed'[u] \subseteq listed[u] /\ \A q \in listed'[u] : queue'[q] = queue[q]
    BY DEF ListsShrink
  <2>1. listed'[u] = listed[u] \ {p} /\ listed[u] \subseteq Pulls
    BY <1>2
  <2>2. QED BY <1>1, <2>1
<1>6. \A u \in Threads : ListedFirst(u)'
  <2> SUFFICES ASSUME NEW u \in Threads, NEW r \in listed'[u]
               PROVE  /\ queue'[r] # 0
                      /\ \A q \in Pulls \ listed'[u] : queue'[q] # 0 => queue'[r] < queue'[q]
    BY DEF ListedFirst
  <2>0. listed'[u] = listed[u] \ {p} /\ listed[u] \subseteq Pulls
    BY <1>2
  <2>1. r \in listed[u] /\ r \in Pulls \ {p} /\ queue'[r] = queue[r]
    BY <1>1, <2>0
  <2>2. \A q \in Pulls \ listed'[u] : queue'[q] # 0 => q \notin listed[u] /\ queue'[q] = queue[q]
    BY <1>1, <2>0
  <2>3. queue[r] # 0 /\ \A q \in Pulls \ listed[u] : queue[q] # 0 => queue[r] < queue[q]
    BY <2>1 DEF Ordered, ListedFirst
  <2>4. QED BY <2>1, <2>2, <2>3
<1>7. QED BY <1>4, <1>5, <1>6

LEMMA SameListsOrdered ==
  ASSUME Ordered, UNCHANGED listVars
  PROVE  IdsFresh' /\ ListsShrink /\ \A u \in Threads : ListedFirst(u)'
  BY DEF Ordered, IdsFresh, ListsShrink, ListedFirst, listVars

LEMMA ListOrdered ==
  ASSUME TypeOK, Ordered, NEW t \in Threads, ListMergeQueue(t)
  PROVE  Ordered'
<1>1. /\ queue' = queue /\ lastId' = lastId
      /\ listed'[t] = Members(queue) /\ \A u \in Threads \ {t} : listed'[u] = listed[u]
      /\ todo'[t] = queue /\ pc'[t] = "next"
  BY DEF ListMergeQueue, Goto, TypeOK
<1>2. OthersWait(t)
  BY PassStepControl DEF PassStep
<1>3. IdsFresh'
  BY <1>1 DEF Ordered, IdsFresh
<1>4. \A u \in Threads \ {t} : ListedFirst(u)' /\ PassOrder(u)'
  BY <1>1, <1>2 DEF Ordered, ListedFirst, PassOrder, OthersWait
<1>5. ListedFirst(t)' /\ PassOrder(t)'
  BY <1>1 DEF ListedFirst, PassOrder, InPass, Members
<1>6. QED BY <1>3, <1>4, <1>5 DEF Ordered

\* The next of the list is ahead of the rest, so the thread takes the right one.
LEMMA TakeNextOrdered ==
  ASSUME TypeOK, Ordered, NEW t \in Threads, todo[t] # Empty,
         pc[t] = "next", NEW step \in {"lock", "drop"}, TakeNext(t, step), UNCHANGED listVars
  PROVE  PassOrder(t)'
<1> SUFFICES ASSUME mode[t] = "queue" PROVE PassOrder(t)'
  BY DEF TakeNext, PassOrder
<1> DEFINE f == First(todo[t])
<1>1. /\ f \in Pulls /\ todo[t] \in [Pulls -> Nat]
      /\ todo[t][f] # 0 /\ \A q \in Members(todo[t]) : todo[t][f] <= todo[t][q]
  BY FirstIsLeast DEF TypeOK, Members
<1>2. /\ pr'[t] = f /\ pc'[t] = step /\ todo'[t] = [todo[t] EXCEPT ![f] = 0]
      /\ queue' = queue /\ listed' = listed /\ listed[t] \subseteq Pulls
  BY DEF TakeNext, Goto, listVars, TypeOK
<1> HIDE DEF f
<1>3. \A q \in listed[t] : todo[t][q] = queue[q] /\ q \in Members(todo[t])
  BY <1>2 DEF Ordered, PassOrder, ListedFirst, Members
<1>4. \A q \in listed[t] : q # f => todo'[t][q] = queue[q]
  BY <1>1, <1>2, <1>3
<1>5. f \in listed[t] => \A q \in listed[t] : queue[f] <= queue[q]
  BY <1>1, <1>3
<1>6. QED BY <1>2, <1>4, <1>5 DEF PassOrder, InPass

LEMMA PassStepOrdered ==
  ASSUME TypeOK, Ordered, NEW t \in Threads, PassStep(t)
  PROVE  Ordered'
<1>1. CASE ListMergeQueue(t)
  BY <1>1, ListOrdered
<1>2. CASE ~ListMergeQueue(t)
  <2>1. IdsFresh' /\ ListsShrink /\ \A u \in Threads : ListedFirst(u)'
    <3>1. CASE Enqueue(t)
      BY <3>1, EnqueueOrdered
    <3>2. CASE Drop(t)
      <4>1. pr[t] \in Pulls /\ RemoveMergeEntry(pr[t])
        BY <3>2, Shapes DEF Drop, AtWork
      <4>2. QED BY <4>1, RemoveOrdered
    <3>3. CASE ~Enqueue(t) /\ ~Drop(t)
      <4>1. UNCHANGED listVars
        BY <1>2, <3>3 DEF PassStep, SetPullAutoMerge, AutoMergeForRepo, SetPullState,
                          TryAutoMerge, NextEntry, NextAuto
      <4>2. QED BY <4>1, SameListsOrdered
    <3>4. QED BY <3>1, <3>2, <3>3
  <2>2. \A u \in Threads \ {t} : PassOrder(u)'
    BY <2>1, PassStepControl, PassOrderKept DEF OthersWait
  <2>3. PassOrder(t)'
    <3>1. CASE Leave(t)
      BY <3>1, LeaveControl DEF PassOrder
    <3>2. CASE NextEntry(t) \/ NextAuto(t)
      <4>1. CASE TakeNext(t, "lock") /\ todo[t] # Empty
        <5>1. UNCHANGED listVars /\ pc[t] = "next"
          BY <3>2 DEF NextEntry, NextAuto
        <5>2. QED BY <4>1, <5>1, TakeNextOrdered
      <4>2. CASE TakeNext(t, "drop") /\ todo[t] # Empty
        <5>1. UNCHANGED listVars /\ pc[t] = "next"
          BY <3>2 DEF NextEntry, NextAuto
        <5>2. QED BY <4>2, <5>1, TakeNextOrdered
      <4>3. QED BY <3>1, <3>2, <4>1, <4>2 DEF NextEntry, NextAuto
    <3>3. CASE Drop(t)
      <4>1. /\ pc[t] = "drop" /\ pc'[t] = "next"
            /\ mode'[t] = mode[t] /\ todo'[t] = todo[t]
        BY <3>3 DEF Drop, Goto, workVars, TypeOK
      <4>2. pr[t] \notin listed'[t]
        BY <3>3 DEF Drop, RemoveMergeEntry
      <4>3. ASSUME mode[t] = "queue", NEW q \in listed'[t] PROVE todo'[t][q] = queue'[q]
        <5>1. q \in listed[t] /\ q # pr[t] /\ queue'[q] = queue[q]
          BY <2>1, <4>2 DEF ListsShrink
        <5>2. QED BY <4>1, <4>3, <5>1 DEF Ordered, PassOrder
      <4>4. QED BY <4>1, <4>3 DEF PassOrder, InPass
    <3>4. CASE AutoMergeForRepo(t)
      BY <3>4 DEF AutoMergeForRepo, PassOrder, TypeOK
    <3>5. CASE /\ Enqueue(t) \/ SetPullAutoMerge(t) \/ TryAutoMerge(t)
               /\ ~Leave(t)
      <4>1. pc[t] \notin InPass /\ mode' = mode
        BY <3>5 DEF Enqueue, SetPullAutoMerge, TryAutoMerge, InPass, Locked, workVars
      <4>2. QED BY <4>1 DEF Ordered, PassOrder
    <3>6. SetPullState(t) => Leave(t)
      BY DEF SetPullState
    <3>7. QED BY <1>2, <3>1, <3>2, <3>3, <3>4, <3>5, <3>6 DEF PassStep
  <2>4. QED BY <2>1, <2>2, <2>3 DEF Ordered
<1>3. QED BY <1>1, <1>2

LEMMA MergeStepOrdered ==
  ASSUME TypeOK, Ordered, NEW t \in Threads, MergeStep(t)
  PROVE  Ordered'
<1>1. UNCHANGED listVars
  BY DEF MergeStep, Acquire, PassGate, RecheckHead, CloneMerge, FFRead, FFCheck, FFOld, Land,
         MarkPullMerged, Notify
<1>2. IdsFresh' /\ ListsShrink /\ \A u \in Threads : ListedFirst(u)'
  BY <1>1, SameListsOrdered
<1>3. \A u \in Threads \ {t} : PassOrder(u)'
  BY <1>2, MergeStepControl, PassOrderKept DEF OthersWait
<1>4. pc[t] \in InPass /\ pc[t] # "next"
  BY DEF MergeStep, Acquire, PassGate, RecheckHead, CloneMerge, FFRead, FFCheck, FFOld, Land,
         MarkPullMerged, Notify, InPass, Locked
<1>5. CASE Leave(t)
  BY <1>2, <1>3, <1>5, LeaveControl DEF PassOrder, Ordered
<1>6. CASE ~Leave(t) /\ UNCHANGED workVars
  <2>1. pc'[t] \in InPass /\ (pc'[t] = "next" => mode[t] # "queue")
    <3>1. CASE \E merged \in BOOLEAN : Return(t, merged) /\ ~Leave(t)
      BY <3>1 DEF Return, Resume, Goto, InPass, TypeOK
    <3>2. CASE \E step \in Locked : Goto(t, step)
      BY <3>2 DEF Goto, InPass, Locked, TypeOK
    <3>3. \/ \E merged \in BOOLEAN : Return(t, merged)
          \/ \E step \in Locked : Goto(t, step)
      BY DEF MergeStep, Acquire, PassGate, RecheckHead, CloneMerge, FFRead, FFCheck, FFOld, Land,
             MarkPullMerged, Notify, Locked
    <3>4. QED BY <1>6, <3>1, <3>2, <3>3
  <2>2. PassOrder(t)'
    BY <1>1, <1>4, <1>6, <2>1 DEF Ordered, PassOrder, listVars, workVars
  <2>3. QED BY <1>2, <1>3, <2>2 DEF Ordered
<1>7. QED
  BY <1>5, <1>6 DEF MergeStep, Acquire, PassGate, RecheckHead, CloneMerge, FFRead, FFCheck, FFOld,
                    Land, MarkPullMerged, Notify, Return, Resume

LEMMA OrderedNext == TypeOK /\ Ordered /\ [Next]_vars => Ordered'
<1> SUFFICES ASSUME TypeOK, Ordered, [Next]_vars PROVE Ordered'
  OBVIOUS
<1>1. CASE UNCHANGED vars
  BY <1>1 DEF Ordered, IdsFresh, ListedFirst, PassOrder, vars, listVars, workVars
<1>2. CASE OtherStep
  <2>1. UNCHANGED <<pc, workVars>>
    BY <1>2 DEF OtherStep, SetPullDraft, ClearAutoMerge, DequeuePull, PushSource, PushTarget,
                PipelineRestarts
  <2>2. UNCHANGED listVars \/ \E p \in Pulls : RemoveMergeEntry(p)
    BY <1>2 DEF OtherStep, SetPullDraft, ClearAutoMerge, DequeuePull, PushSource, PushTarget,
                PipelineRestarts
  <2>3. IdsFresh' /\ ListsShrink /\ \A u \in Threads : ListedFirst(u)'
    BY <2>2, SameListsOrdered, RemoveOrdered
  <2>4. QED BY <2>1, <2>3, PassOrderKept DEF Ordered, workVars
<1>3. ASSUME NEW t \in Threads, Request(t) PROVE Ordered'
  <2>1. UNCHANGED <<listVars, mode>> /\ pc[t] = "idle"
    BY <1>3 DEF Request, Begin, MergePull, RequestAuto, PipelineSucceeds, RequestState, Review
  <2>2. IdsFresh' /\ ListsShrink /\ \A u \in Threads : ListedFirst(u)'
    BY <2>1, SameListsOrdered
  <2>3. \A u \in Threads \ {t} : PassOrder(u)'
    BY <1>3, <2>2, RequestControl, PassOrderKept DEF OthersWait
  <2>4. PassOrder(t)'
    BY <2>1 DEF Ordered, PassOrder, InPass, Locked
  <2>5. QED BY <2>2, <2>3, <2>4 DEF Ordered
<1>4. CASE Crash
  BY <1>4 DEF Crash, Ordered, IdsFresh, ListedFirst, PassOrder
<1>5. QED BY <1>1, <1>2, <1>3, <1>4, NextParts, PassStepOrdered, MergeStepOrdered

\* The pull request a pass is landing is the head of the queue.
LEMMA OrderedLandsHead ==
  ASSUME TypeOK, Ordered, NEW t \in Threads,
         pc[t] = "land", mode[t] = "queue", pr[t] \in listed[t]
  PROVE  First(queue) = pr[t]
<1>1. queue \in [Pulls -> Nat] /\ listed[t] \subseteq Pulls
  BY DEF TypeOK
<1>2. pr[t] \in Members(queue) /\ \A q \in listed[t] : queue[pr[t]] <= queue[q]
  BY <1>1 DEF Ordered, ListedFirst, PassOrder, Members
<1>3. \A q \in Members(queue) \ listed[t] : queue[pr[t]] < queue[q]
  BY DEF Ordered, ListedFirst, Members
<1>4. queue # Empty
  BY <1>2 DEF Members, Empty
<1> DEFINE f == First(queue)
<1>5. f \in Members(queue) /\ \A q \in Members(queue) : queue[f] <= queue[q]
  BY <1>1, <1>4, FirstIsLeast
<1> HIDE DEF f
<1>6. f \in Pulls /\ pr[t] \in Pulls /\ queue[f] \in Nat /\ queue[pr[t]] \in Nat
  BY <1>1, <1>2, <1>5 DEF Members
<1>7. queue[f] <= queue[pr[t]]
  BY <1>2, <1>5
<1>8. f \in listed[t]
  BY <1>3, <1>5, <1>6, <1>7
<1>9. queue[f] = queue[pr[t]]
  BY <1>2, <1>6, <1>7, <1>8
<1>10. f = pr[t]
  BY <1>2, <1>6, <1>9 DEF Ordered, IdsFresh, Members
<1>11. QED BY <1>10 DEF f

\* No pass over the merge queue lands a pull request ahead of one queued before
\* it, for every number of passes, requests and removals at once.
THEOREM PassesKeepTheOrder == Spec => QueueOrder
<1> DEFINE Inv == TypeOK /\ Ordered
<1>1. Init => Inv
  BY InitTypeOK, OrderedInit
<1>2. Inv /\ [Next]_vars => Inv'
  BY NextTypeOK, OrderedNext
<1>3. Inv => \A t \in Threads :
               pc[t] = "land" /\ pc'[t] = "mark" /\ mode[t] = "queue" /\ pr[t] \in listed[t]
                 => First(queue) = pr[t]
  BY OrderedLandsHead
<1>4. QED BY <1>1, <1>2, <1>3, PTL DEF Spec, QueueOrder

-----------------------------------------------------------------------------
(* No pull request is forgotten.                                            *)

\* A pull request that the events are to have merged.
Wanted(p) == p \notin missed /\ autoMerge[p] /\ Mergeable(p)

\* The thread will attempt it, or attempts it and has not failed.
Attempts(t, p) ==
    \/ pc[t] = "hook"
    \/ mode[t] = "list" /\ todo[t][p] # 0
    \/ /\ pr[t] = p
       /\ \/ pc[t] \in {"try", "lock", "clone", "land", "mark"}
          \/ pc[t] \in {"gate", "recheck"} /\ head[t] = tip[p]
          \/ pc[t] \in {"ffread", "ffcheck", "ffold"} /\ Method[p] = "fast-forward"

InList == {"next", "lock"} \cup Locked
ListModes == \A t \in Threads : mode[t] = "list" => pc[t] \in InList

\* Without a queue, somebody attempts whatever is wanted.
Attended ==
    /\ ListModes
    /\ ~MergeQueue => \A p \in Pulls : Wanted(p) => \E t \in Threads : Attempts(t, p)

LEMMA AttendedInit == Init => Attended
  BY DEF Init, Attended, ListModes, Wanted

\* The gate opens for nothing while reviews and results stay.
LEMMA GateKept ==
  ASSUME UNCHANGED gateVars, NEW p \in Pulls, NEW h, GateOpen(p, h)'
  PROVE  GateOpen(p, h)
<1>1. reviews' = reviews /\ green' = green
  BY DEF gateVars
<1>2. QED BY <1>1 DEF GateOpen, Verdicts

\* Nor is anything newly wanted while rows and refs stay, too.
LEMMA WantedKept ==
  ASSUME NEW p \in Pulls, UNCHANGED <<state, draft, autoMerge, gateVars, refVars>>,
         missed \subseteq missed', Wanted(p)'
  PROVE  Wanted(p)
<1>1. tip' = tip /\ target' = target
  BY DEF refVars
<1>2. GateOpen(p, tip[p])'
  BY DEF Wanted, Mergeable
<1>3. GateOpen(p, tip[p])
  BY <1>1, <1>2, GateKept
<1>4. QED BY <1>1, <1>3 DEF Wanted, Mergeable

\* A step of t keeps everything attended if it attends to what it makes wanted
\* and gives up nothing that is still wanted.
LEMMA AttendedKept ==
  ASSUME Attended, NEW t \in Threads, OthersWait(t), tip' = tip,
         mode'[t] = "list" => pc'[t] \in InList,
         ~MergeQueue => \A p \in Pulls :
            /\ Wanted(p)' => Wanted(p) \/ Attempts(t, p)'
            /\ Wanted(p)' /\ Attempts(t, p) => Attempts(t, p)'
  PROVE  Attended'
<1>1. ListModes'
  BY DEF Attended, ListModes, OthersWait
<1>2. ASSUME ~MergeQueue, NEW p \in Pulls, Wanted(p)' PROVE \E u \in Threads : Attempts(u, p)'
  <2>1. CASE Attempts(t, p)'
    BY <2>1
  <2>2. CASE ~Attempts(t, p)'
    <3>1. PICK u \in Threads : Attempts(u, p)
      BY <1>2, <2>2 DEF Attended
    <3>2. u # t
      BY <1>2, <2>2, <3>1
    <3>3. Attempts(u, p)'
      BY <3>1, <3>2 DEF Attempts, OthersWait
    <3>4. QED BY <3>3
  <2>3. QED BY <2>1, <2>2
<1>3. QED BY <1>1, <1>2 DEF Attended

LEMMA RequestAttended ==
  ASSUME TypeOK, Attended, NEW t \in Threads, Request(t)
  PROVE  Attended'
<1>1. OthersWait(t)
  BY RequestControl
<1>2. /\ pc[t] = "idle" /\ mode' = mode /\ mode[t] # "list" /\ tip' = tip
      /\ \A p \in Pulls : ~Attempts(t, p)
  <2>1. pc[t] = "idle" /\ mode' = mode /\ tip' = tip
    BY DEF Request, MergePull, RequestAuto, PipelineSucceeds, RequestState, Review, Begin,
           refVars
  <2>2. mode[t] # "list"
    BY <2>1 DEF Attended, ListModes, InList, Locked
  <2>3. QED BY <2>1, <2>2 DEF Attempts
<1>3. ASSUME NEW q \in Pulls, Wanted(q)' PROVE Wanted(q) \/ Attempts(t, q)'
  <2> PICK p \in Pulls :
         \/ MergePull(t, p) \/ RequestAuto(t, p) \/ PipelineSucceeds(t, p)
         \/ \E s \in {"open", "closed"} : RequestState(t, p, s)
         \/ \E v \in Reviewers, says \in {"approve", "request_changes"} : Review(t, p, v, says)
    BY DEF Request
  <2>1. CASE \/ MergePull(t, p) \/ RequestAuto(t, p)
             \/ \E s \in {"open", "closed"} : RequestState(t, p, s)
    <3>1. UNCHANGED <<state, draft, autoMerge, gateVars, refVars, missed>>
      BY <2>1 DEF MergePull, RequestAuto, RequestState, rowVars, obsVars
    <3>2. QED BY <1>3, <3>1, WantedKept
  <2>2. CASE PipelineSucceeds(t, p)
    <3>1. pc'[t] = "hook"
      BY <2>2 DEF PipelineSucceeds, Begin, Goto, TypeOK
    <3>2. QED BY <3>1 DEF Attempts
  <2>3. ASSUME NEW v \in Reviewers, NEW says \in {"approve", "request_changes"},
               Review(t, p, v, says)
        PROVE  Wanted(q) \/ Attempts(t, q)'
    <3>1. CASE q = p
      <4>1. pc'[t] = "try" /\ pr'[t] = p
        BY <2>3 DEF Review, Begin, Goto, TypeOK
      <4>2. QED BY <3>1, <4>1 DEF Attempts
    <3>2. CASE q # p
      <4>1. /\ reviews'[q] = reviews[q] /\ green' = green /\ tip' = tip /\ target' = target
            /\ UNCHANGED <<state, draft, autoMerge>>
        BY <2>3, <3>2 DEF Review, rowVars, refVars, TypeOK
      <4>2. q \notin missed
        BY <1>3, <2>3, <3>2 DEF Wanted, Review
      <4>3. GateOpen(q, tip[q])' => GateOpen(q, tip[q])
        BY <4>1 DEF GateOpen, Verdicts
      <4>4. QED BY <1>3, <4>1, <4>2, <4>3 DEF Wanted, Mergeable
    <3>3. QED BY <3>1, <3>2
  <2>4. QED BY <2>1, <2>2, <2>3
<1>4. QED BY <1>1, <1>2, <1>3, AttendedKept

LEMMA PassStepAttended ==
  ASSUME TypeOK, Attended, NEW t \in Threads, PassStep(t)
  PROVE  Attended'
<1>1. OthersWait(t)
  BY PassStepControl
<1>2. tip' = tip
  BY DEF PassStep, Enqueue, SetPullAutoMerge, AutoMergeForRepo, SetPullState, TryAutoMerge,
         ListMergeQueue, NextEntry, NextAuto, Drop, refVars
\* Before executeMerge only the hook, an attempt and a list attend to anything.
<1>3. pc[t] \notin InList => mode[t] # "list"
  BY DEF Attended, ListModes
<1>4. CASE Enqueue(t) \/ Drop(t) \/ ListMergeQueue(t) \/ SetPullState(t) \/ NextEntry(t)
  <2>1. \A p \in Pulls : ~Attempts(t, p)
    <3>1. pc[t] \in {"enqueue", "drop", "list", "setstate"} \/ (pc[t] = "next" /\ mode[t] = "queue")
      BY <1>4 DEF Enqueue, Drop, ListMergeQueue, SetPullState, NextEntry
    <3>2. QED BY <1>3, <3>1 DEF Attempts, InList, Locked
  <2>2. mode'[t] # "list"
    <3>1. CASE Leave(t)
      BY <3>1, LeaveControl
    <3>2. CASE ~Leave(t)
      <4>1. mode[t] # "list"
        BY <1>3, <1>4 DEF Enqueue, Drop, ListMergeQueue, SetPullState, NextEntry, InList, Locked
      <4>2. mode' = mode \/ mode' = [mode EXCEPT ![t] = "queue"]
        BY <1>4, <3>2 DEF Enqueue, Drop, ListMergeQueue, SetPullState, NextEntry, TakeNext,
                          workVars
      <4>3. QED BY <4>1, <4>2 DEF TypeOK
    <3>3. QED BY <3>1, <3>2
  <2>3. ASSUME NEW p \in Pulls, Wanted(p)' PROVE Wanted(p)
    <3>1. CASE SetPullState(t)
      BY <2>3, <3>1 DEF SetPullState, Wanted
    <3>2. CASE ~SetPullState(t)
      <4>1. UNCHANGED <<state, draft, autoMerge, gateVars, refVars, missed>>
        BY <1>4, <3>2 DEF Enqueue, Drop, ListMergeQueue, NextEntry, rowVars, obsVars
      <4>2. QED BY <2>3, <4>1, WantedKept
    <3>3. QED BY <3>1, <3>2
  <2>4. QED BY <1>1, <1>2, <2>1, <2>2, <2>3, AttendedKept
<1>5. CASE SetPullAutoMerge(t)
  <2>1. pr[t] \in Pulls /\ autoMerge \in [Pulls -> BOOLEAN]
    BY <1>5, Shapes DEF SetPullAutoMerge, AtWork
  <2>2. /\ pc[t] = "setauto" /\ pc'[t] = "try" /\ pr' = pr /\ mode' = mode /\ mode[t] # "list"
    BY <1>3, <1>5 DEF SetPullAutoMerge, Goto, workVars, TypeOK, InList, Locked
  <2>4. ASSUME NEW p \in Pulls, p # pr[t], Wanted(p)' PROVE Wanted(p)
    <3>1. /\ UNCHANGED <<state, draft, gateVars, refVars, missed>>
          /\ autoMerge'[p] = autoMerge[p]
      BY <1>5, <2>1, <2>4 DEF SetPullAutoMerge, obsVars
    <3>2. GateOpen(p, tip[p])' => GateOpen(p, tip[p])
      BY <3>1, GateKept DEF refVars
    <3>3. QED BY <2>4, <3>1, <3>2 DEF Wanted, Mergeable, refVars
  <2>5. \A p \in Pulls : ~Attempts(t, p)
    BY <2>2 DEF Attempts
  <2>6. ASSUME NEW p \in Pulls, Wanted(p)' PROVE Wanted(p) \/ Attempts(t, p)'
    <3>1. CASE p = pr[t]
      BY <2>2, <3>1 DEF Attempts
    <3>2. CASE p # pr[t]
      BY <2>4, <2>6, <3>2
    <3>3. QED BY <3>1, <3>2
  <2>7. QED BY <1>1, <1>2, <2>2, <2>5, <2>6, AttendedKept
<1>6. CASE AutoMergeForRepo(t)
  <2>1. /\ UNCHANGED <<state, draft, autoMerge, gateVars, refVars, missed>>
        /\ pc'[t] = "next" /\ mode'[t] = "list"
        /\ todo'[t] = [p \in Pulls |-> IF state[p] = "open" /\ autoMerge[p] /\ ~draft[p]
                                       THEN p ELSE 0]
    BY <1>6 DEF AutoMergeForRepo, Goto, rowVars, obsVars, TypeOK
  <2>2. ASSUME NEW p \in Pulls, Wanted(p)' PROVE Wanted(p) /\ Attempts(t, p)'
    <3>1. Wanted(p)
      BY <2>1, <2>2, WantedKept
    <3>2. p # 0 /\ state[p] = "open" /\ autoMerge[p] /\ ~draft[p]
      BY <3>1 DEF Wanted, Mergeable
    <3>3. QED BY <2>1, <3>1, <3>2 DEF Attempts
  <2>3. pc'[t] \in InList
    BY <2>1 DEF InList
  <2>4. QED BY <1>1, <1>2, <2>2, <2>3, AttendedKept
<1>7. CASE TryAutoMerge(t)
  <2>1. /\ UNCHANGED <<state, draft, autoMerge, gateVars, refVars, missed>>
        /\ pc[t] = "try" /\ mode[t] # "list"
    BY <1>3, <1>7 DEF TryAutoMerge, rowVars, obsVars, InList, Locked
  <2>2. mode'[t] # "list"
    BY <1>7, <2>1, LeaveControl DEF TryAutoMerge, workVars
  <2>3. ASSUME ~MergeQueue, NEW p \in Pulls, Wanted(p)', Attempts(t, p) PROVE Attempts(t, p)'
    <3>1. Wanted(p) /\ p = pr[t]
      BY <2>1, <2>3, WantedKept DEF Attempts
    <3>2. state[p] = "open" /\ autoMerge[p] /\ ~draft[p]
      BY <3>1 DEF Wanted, Mergeable
    <3>3. pc'[t] = "lock" /\ pr' = pr
      BY <1>7, <2>3, <3>1, <3>2 DEF TryAutoMerge, Goto, workVars, TypeOK
    <3>4. QED BY <3>1, <3>3 DEF Attempts
  <2>4. \A p \in Pulls : Wanted(p)' => Wanted(p)
    BY <2>1, WantedKept
  <2>5. QED BY <1>1, <1>2, <2>2, <2>3, <2>4, AttendedKept
<1>8. CASE NextAuto(t)
  <2>1. /\ UNCHANGED <<state, draft, autoMerge, gateVars, refVars, missed>>
        /\ pc[t] = "next" /\ mode[t] = "list"
    BY <1>8 DEF NextAuto, rowVars, obsVars
  <2>2. \A p \in Pulls : Wanted(p)' => Wanted(p)
    BY <2>1, WantedKept
  <2>3. CASE todo[t] = Empty
    <3>1. mode'[t] # "list"
      BY <1>8, <2>3, LeaveControl DEF NextAuto
    <3>2. \A p \in Pulls : ~Attempts(t, p)
      BY <2>1, <2>3 DEF Attempts, Empty
    <3>3. QED BY <1>1, <1>2, <2>2, <3>1, <3>2, AttendedKept
  <2>4. CASE todo[t] # Empty
    <3> DEFINE f == First(todo[t])
    <3>1. /\ pc'[t] = "lock" /\ mode' = mode /\ pr'[t] = f
          /\ todo'[t] = [todo[t] EXCEPT ![f] = 0]
      BY <1>8, <2>4 DEF NextAuto, TakeNext, Goto, TypeOK
    <3> HIDE DEF f
    <3>2. ASSUME NEW p \in Pulls, Attempts(t, p) PROVE Attempts(t, p)'
      <4>1. todo[t][p] # 0
        BY <2>1, <3>2 DEF Attempts
      <4>2. CASE p = f
        BY <3>1, <4>2 DEF Attempts
      <4>3. CASE p # f
        BY <2>1, <3>1, <4>1, <4>3 DEF Attempts, TypeOK
      <4>4. QED BY <4>2, <4>3
    <3>3. pc'[t] \in InList
      BY <3>1 DEF InList
    <3>4. QED BY <1>1, <1>2, <2>2, <3>2, <3>3, AttendedKept
  <2>5. QED BY <2>3, <2>4
<1>9. QED BY <1>4, <1>5, <1>6, <1>7, <1>8 DEF PassStep

LEMMA MergeStepAttended ==
  ASSUME TypeOK, Attended, NEW t \in Threads, MergeStep(t)
  PROVE  Attended'
<1>1. OthersWait(t) /\ tip' = tip
  BY MergeStepControl DEF MergeStep, Acquire, PassGate, RecheckHead, CloneMerge, FFRead, FFCheck,
                          FFOld, Land, MarkPullMerged, Notify, refVars
\* Whatever becomes of the pull request at hand, the rest of the list stays.
<1>2. /\ mode[t] = "list" => mode'[t] = "list" /\ todo'[t] = todo[t] /\ pc'[t] \in InList
      /\ mode[t] # "list" => mode'[t] # "list"
  <2>1. CASE \E merged \in BOOLEAN : Return(t, merged)
    <3>1. CASE Leave(t) /\ mode[t] # "list"
      BY <3>1, LeaveControl
    <3>2. CASE \E step \in {"next", "drop"} :
                 /\ Goto(t, step) /\ UNCHANGED <<workVars, opVars>>
                 /\ mode[t] = "list" => step = "next"
      BY <3>2 DEF Goto, workVars, TypeOK, InList
    <3>3. QED BY <2>1, <3>1, <3>2 DEF Return, Resume
  <2>2. CASE \A merged \in BOOLEAN : ~Return(t, merged)
    <3>1. UNCHANGED workVars /\ \E step \in Locked : Goto(t, step)
      BY <2>2 DEF MergeStep, Acquire, PassGate, RecheckHead, CloneMerge, FFRead, FFCheck, FFOld,
                  Land, MarkPullMerged, Notify, Locked
    <3>2. QED BY <3>1 DEF Goto, workVars, TypeOK, InList
  <2>3. QED BY <2>1, <2>2
<1>3. ASSUME NEW p \in Pulls, Wanted(p)' PROVE Wanted(p)
  <2>1. CASE Land(t) /\ target = old[t]
    <3>1. /\ UNCHANGED <<state, draft, autoMerge, gateVars>>
          /\ target' = new[t] /\ missed' = missed \cup FreedBy(new[t])
      BY <2>1 DEF Land, rowVars
    <3>2. target' \subseteq tip[p] => target \subseteq tip[p]
      BY <1>3, <3>1 DEF Wanted, FreedBy
    <3>3. GateOpen(p, tip[p])' => GateOpen(p, tip[p])
      BY <1>1, <3>1, GateKept
    <3>4. QED BY <1>1, <1>3, <3>1, <3>2, <3>3 DEF Wanted, Mergeable
  <2>2. CASE MarkPullMerged(t) /\ state[pr[t]] = "open"
    <3>1. /\ UNCHANGED <<draft, gateVars, refVars, missed>>
          /\ state' = [state EXCEPT ![pr[t]] = "merged"]
          /\ autoMerge' = [autoMerge EXCEPT ![pr[t]] = FALSE]
      BY <2>2 DEF MarkPullMerged, obsVars
    <3>2. p # pr[t]
      BY <1>3, <3>1 DEF Wanted, Mergeable, TypeOK
    <3>3. state'[p] = state[p] /\ autoMerge'[p] = autoMerge[p]
      BY <3>1, <3>2 DEF TypeOK
    <3>4. GateOpen(p, tip[p])' => GateOpen(p, tip[p])
      BY <1>1, <3>1, GateKept
    <3>5. QED BY <1>3, <3>1, <3>3, <3>4 DEF Wanted, Mergeable, refVars
  <2>3. CASE ~(Land(t) /\ target = old[t]) /\ ~(MarkPullMerged(t) /\ state[pr[t]] = "open")
    <3>1. UNCHANGED <<state, draft, autoMerge, gateVars, refVars>> /\ missed \subseteq missed'
      BY <2>3 DEF MergeStep, Acquire, PassGate, RecheckHead, CloneMerge, FFRead, FFCheck, FFOld,
                  Land, MarkPullMerged, Notify, rowVars, refVars, obsVars
    <3>2. QED BY <1>3, <3>1, WantedKept
  <2>4. QED BY <2>1, <2>2, <2>3
\* The attempt goes on, unless the pull request is not to be merged after all.
<1>4. ASSUME NEW p \in Pulls, Wanted(p)', Attempts(t, p) PROVE Attempts(t, p)'
  <2>1. CASE mode[t] = "list" /\ todo[t][p] # 0
    BY <1>2, <2>1 DEF Attempts
  <2>2. CASE ~(mode[t] = "list" /\ todo[t][p] # 0)
    <3>1. /\ pr[t] = p /\ pc[t] # "hook"
          /\ \/ pc[t] \in {"lock", "clone", "land", "mark"}
             \/ pc[t] \in {"gate", "recheck"} /\ head[t] = tip[p]
             \/ pc[t] \in {"ffread", "ffcheck", "ffold"} /\ Method[p] = "fast-forward"
      BY <1>4, <2>2 DEF Attempts, MergeStep, Acquire, PassGate, RecheckHead, CloneMerge, FFRead,
                        FFCheck, FFOld, Land, MarkPullMerged, Notify
    <3>2. Wanted(p)
      BY <1>3, <1>4
    <3>3. CASE Acquire(t)
      BY <1>1, <3>1, <3>3 DEF Acquire, Goto, workVars, Attempts, TypeOK
    <3>4. CASE PassGate(t)
      <4>1. GateOpen(p, head[t])
        BY <3>1, <3>2, <3>4 DEF PassGate, Wanted, Mergeable
      <4>2. QED
        BY <1>1, <3>1, <3>4, <4>1 DEF PassGate, Goto, workVars, opVars, Attempts, TypeOK
    <3>5. CASE RecheckHead(t)
      <4>1. head[t] = tip[p]
        BY <3>1, <3>5 DEF RecheckHead
      <4>2. Method[p] \in {"fast-forward", "merge"}
        OBVIOUS
      <4>3. QED
        BY <3>1, <3>5, <4>1, <4>2 DEF RecheckHead, Goto, workVars, Attempts, TypeOK
    <3>6. CASE FFRead(t) \/ FFOld(t)
      BY <3>1, <3>6 DEF FFRead, FFOld, Goto, workVars, Attempts, TypeOK
    <3>7. CASE FFCheck(t)
      <4>1. Method[p] = "fast-forward" /\ target \subseteq tip[p]
        BY <3>1, <3>2, <3>7 DEF FFCheck, Wanted, Mergeable
      <4>2. QED BY <3>1, <3>7, <4>1 DEF FFCheck, Goto, workVars, Attempts, TypeOK
    <3>8. CASE CloneMerge(t) \/ Land(t)
      <4>1. p \notin missed'
        BY <1>4 DEF Wanted
      <4>2. pc'[t] \in {"land", "mark"} /\ pr' = pr
        BY <3>1, <3>8, <4>1 DEF CloneMerge, Land, Goto, workVars, TypeOK
      <4>3. QED BY <3>1, <4>2 DEF Attempts
    <3>9. CASE MarkPullMerged(t)
      <4>1. state'[p] # "open"
        BY <3>1, <3>9 DEF MarkPullMerged, TypeOK
      <4>2. QED BY <1>4, <4>1 DEF Wanted, Mergeable
    <3>10. CASE Notify(t)
      BY <3>1, <3>10 DEF Notify
    <3>11. QED BY <3>3, <3>4, <3>5, <3>6, <3>7, <3>8, <3>9, <3>10 DEF MergeStep
  <2>3. QED BY <2>1, <2>2
<1>5. QED BY <1>1, <1>2, <1>3, <1>4, AttendedKept

LEMMA OtherStepAttended ==
  ASSUME TypeOK, Attended, OtherStep
  PROVE  Attended'
<1>1. UNCHANGED <<pc, workVars, opVars>>
  BY DEF OtherStep, SetPullDraft, ClearAutoMerge, DequeuePull, PushSource, PushTarget,
         PipelineRestarts
<1>2. ListModes'
  BY <1>1 DEF Attended, ListModes, workVars
<1>3. ASSUME NEW q \in Pulls, Wanted(q)' PROVE Wanted(q) /\ tip'[q] = tip[q]
  <2>1. ASSUME NEW p \in Pulls, SetPullDraft(p) PROVE Wanted(q) /\ tip'[q] = tip[q]
    <3>1. q # p /\ q \notin missed
      BY <1>3, <2>1 DEF SetPullDraft, Wanted
    <3>2. UNCHANGED <<state, autoMerge, gateVars, refVars>> /\ draft'[q] = draft[q]
      BY <2>1, <3>1 DEF SetPullDraft, TypeOK
    <3>3. GateOpen(q, tip[q])' => GateOpen(q, tip[q])
      BY <3>2, GateKept DEF refVars
    <3>4. QED BY <1>3, <3>1, <3>2, <3>3 DEF Wanted, Mergeable, refVars
  <2>2. ASSUME NEW p \in Pulls, ClearAutoMerge(p) PROVE Wanted(q) /\ tip'[q] = tip[q]
    <3>1. /\ UNCHANGED <<state, draft, gateVars, refVars, missed>>
          /\ autoMerge'[q] => autoMerge[q]
      BY <2>2 DEF ClearAutoMerge, obsVars, TypeOK
    <3>2. GateOpen(q, tip[q])' => GateOpen(q, tip[q])
      BY <3>1, GateKept DEF refVars
    <3>3. QED BY <1>3, <3>1, <3>2 DEF Wanted, Mergeable, refVars
  <2>3. ASSUME NEW p \in Pulls, DequeuePull(p) PROVE FALSE
    BY <1>3, <2>3 DEF DequeuePull, Wanted
  <2>4. ASSUME NEW p \in Pulls, PushSource(p) PROVE Wanted(q) /\ tip'[q] = tip[q]
    <3>1. q # p /\ q \notin missed
      BY <1>3, <2>4 DEF PushSource, Wanted
    <3>2. UNCHANGED <<rowVars, gateVars, target>> /\ tip'[q] = tip[q]
      BY <2>4, <3>1 DEF PushSource, TypeOK
    <3>3. GateOpen(q, tip[q])' => GateOpen(q, tip[q])
      BY <3>2, GateKept
    <3>4. QED BY <1>3, <3>1, <3>2, <3>3 DEF Wanted, Mergeable, rowVars
  <2>5. CASE PushTarget
    <3>1. UNCHANGED <<rowVars, gateVars, tip, missed>> /\ target \subseteq target'
      BY <2>5 DEF PushTarget
    <3>2. GateOpen(q, tip[q])' => GateOpen(q, tip[q])
      BY <3>1, GateKept
    <3>3. QED BY <1>3, <3>1, <3>2 DEF Wanted, Mergeable, rowVars
  <2>6. ASSUME NEW c \in green, PipelineRestarts(c) PROVE Wanted(q) /\ tip'[q] = tip[q]
    <3>1. UNCHANGED <<rowVars, reviews, refVars, missed>> /\ green' \subseteq green
      BY <2>6 DEF PipelineRestarts, obsVars
    <3>2. GateOpen(q, tip[q])' => GateOpen(q, tip[q])
      BY <3>1 DEF GateOpen, Verdicts, refVars
    <3>3. QED BY <1>3, <3>1, <3>2 DEF Wanted, Mergeable, rowVars, refVars
  <2>7. QED BY <2>1, <2>2, <2>3, <2>4, <2>5, <2>6 DEF OtherStep
<1>4. ASSUME ~MergeQueue, NEW q \in Pulls, Wanted(q)' PROVE \E t \in Threads : Attempts(t, q)'
  <2>1. Wanted(q) /\ tip'[q] = tip[q]
    BY <1>3, <1>4
  <2>2. PICK t \in Threads : Attempts(t, q)
    BY <1>4, <2>1 DEF Attended
  <2>3. Attempts(t, q)'
    BY <1>1, <2>1, <2>2 DEF Attempts, workVars, opVars
  <2>4. QED BY <2>3
<1>5. QED BY <1>2, <1>4 DEF Attended

LEMMA AttendedNext == TypeOK /\ Attended /\ [Next]_vars => Attended'
<1> SUFFICES ASSUME TypeOK, Attended, [Next]_vars PROVE Attended'
  OBVIOUS
<1>1. CASE UNCHANGED vars
  <2>1. /\ ListModes'
        /\ \A p \in Pulls, t \in Threads : Attempts(t, p) => Attempts(t, p)'
    BY <1>1 DEF Attended, ListModes, Attempts, vars, refVars, workVars, opVars
  <2>2. \A p \in Pulls : Wanted(p)' => Wanted(p)
    BY <1>1, WantedKept DEF vars, rowVars, obsVars
  <2>3. QED BY <2>1, <2>2 DEF Attended
\* The attempts that die with the server were events, too: nothing is left wanted.
<1>2. CASE Crash
  <2>1. ListModes'
    BY <1>2 DEF Crash, ListModes
  <2>2. ASSUME ~MergeQueue, NEW p \in Pulls, Wanted(p)' PROVE FALSE
    <3>1. missed' = missed \cup {q \in Pulls : Given(q)}
      BY <1>2 DEF Crash
    <3>2. Wanted(p)
      BY <1>2, <2>2, <3>1, WantedKept DEF Crash, rowVars
    <3>3. PICK t \in Threads : Attempts(t, p)
      BY <2>2, <3>2 DEF Attended
    <3>4. Given(p)
      BY <3>3 DEF Attempts, Given
    <3>5. QED BY <2>2, <3>1, <3>4 DEF Wanted
  <2>3. QED BY <2>1, <2>2 DEF Attended
<1>3. QED BY <1>1, <1>2, NextParts, RequestAttended, PassStepAttended, MergeStepAttended,
             OtherStepAttended

LEMMA AttendedNotForgotten == Attended => NotForgotten
<1> SUFFICES ASSUME Attended, Quiet, ~MergeQueue,
                    NEW p \in Pulls \ missed, autoMerge[p], Mergeable(p)
             PROVE  FALSE
  BY DEF NotForgotten
<1>1. PICK t \in Threads : Attempts(t, p)
  BY DEF Attended, Wanted
<1>2. pc[t] = "idle" /\ mode[t] # "list"
  BY DEF Quiet, Attended, ListModes, InList, Locked
<1>3. QED BY <1>1, <1>2 DEF Attempts

\* Without a queue, the approval, the pipeline and the switch never all miss a
\* pull request, for every number of threads, of pull requests and of reviews:
\* what becomes mergeable by an event is attempted until it is merged or ceases
\* to be mergeable.
THEOREM NoEventIsMissed == Spec => []NotForgotten
<1> DEFINE Inv == TypeOK /\ Attended
<1>1. Init => Inv
  BY InitTypeOK, AttendedInit
<1>2. Inv /\ [Next]_vars => Inv'
  BY NextTypeOK, AttendedNext
<1>3. Inv => NotForgotten
  BY AttendedNotForgotten
<1>4. QED BY <1>1, <1>2, <1>3, PTL DEF Spec

=============================================================================
