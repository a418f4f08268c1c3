---------------------------- MODULE ReverseDial ----------------------------
(***************************************************************************)
(* Connections the servers open to one runner of mode reverse: every       *)
(* instance reconciles its dial loop with the runner's row, and a key in   *)
(* redis lets one loop dial at a time.  The key does not say whose it is:  *)
(* a loop renews and deletes whatever key there is.  It expires when no    *)
(* loop has renewed it for its time to live: the loop's process died, or   *)
(* it stalled.  A loop that runs renews it twice in that time, and goes    *)
(* from the end of the connection to the deletion at once.                 *)
(* A changed URL is a higher number; a deleted row stops a loop in the     *)
(* same way.                                                               *)
(* Source: src/backend/internal/runner/reverse.go.                         *)
(***************************************************************************)
EXTENDS Naturals, FiniteSets

CONSTANTS
    Instances,  \* servers on one redis
    MaxUrl,     \* bound on the URLs the runner's row gets
    MaxStalls,  \* bound on the processes that stall longer than the key lives
    MaxCrashes  \* bound on the processes that die

VARIABLES
    url,      \* runners.url
    current,  \* Hub.reverse of each instance: the URL of its loop, 0 for none
    lpc,      \* each loop: "none", "try", "dial", "up", "delete"
    key,      \* the key exists
    stalled,  \* instances that do not run at the moment
    stalls, crashes

vars == <<url, current, lpc, key, stalled, stalls, crashes>>

\* There are finitely many servers.
ReverseAssumption == IsFiniteSet(Instances) /\ MaxUrl \in Nat \ {0}

Urls  == 1 .. MaxUrl
Loops == Instances \X Urls
Cancelled(l) == current[l[1]] # l[2]
Runs(l)      == l[1] \notin stalled
Dialing      == {l \in Loops : lpc[l] \in {"dial", "up"}}

Init ==
    /\ url = 1
    /\ current = [i \in Instances |-> 0]
    /\ lpc = [l \in Loops |-> "none"]
    /\ key = FALSE
    /\ stalled = {} /\ stalls = 0 /\ crashes = 0

SetUrl ==
    /\ url < MaxUrl
    /\ url' = url + 1
    /\ UNCHANGED <<current, lpc, key, stalled, stalls, crashes>>

\* reconcileReverse cancels the loop of an old URL and starts one for the new,
\* without waiting for the old one to end.
Reconcile(i) ==
    /\ i \notin stalled /\ current[i] # url
    /\ current' = [current EXCEPT ![i] = url]
    /\ lpc' = [lpc EXCEPT ![<<i, url>>] = "try"]
    /\ UNCHANGED <<url, key, stalled, stalls, crashes>>

Goto(l, pc) == lpc' = [lpc EXCEPT ![l] = pc]

\* Mutant: the key is set whether it exists or not.
SetAlways(l) ==
    /\ lpc[l] = "try" /\ Runs(l) /\ ~Cancelled(l)
    /\ key' = TRUE
    /\ Goto(l, "dial")
    /\ UNCHANGED <<url, current, stalled, stalls, crashes>>

\* SetNX
SetNX(l) ==
    /\ lpc[l] = "try" /\ Runs(l) /\ ~Cancelled(l)
    /\ ~key
    /\ key' = TRUE
    /\ Goto(l, "dial")
    /\ UNCHANGED <<url, current, stalled, stalls, crashes>>

Dial(l) ==
    /\ lpc[l] = "dial" /\ Runs(l) /\ ~Cancelled(l)
    /\ Goto(l, "up")
    /\ UNCHANGED <<url, current, key, stalled, stalls, crashes>>

\* The dial fails or the connection ends.
Drop(l) ==
    /\ l \in Dialing /\ Runs(l)
    /\ Goto(l, "delete")
    /\ UNCHANGED <<url, current, key, stalled, stalls, crashes>>

\* A cancelled loop ends its connection, or leaves the wait for the key.
Cancel(l) ==
    /\ Cancelled(l) /\ Runs(l) /\ lpc[l] \in {"try", "dial", "up"}
    /\ Goto(l, IF lpc[l] = "try" THEN "none" ELSE "delete")
    /\ UNCHANGED <<url, current, key, stalled, stalls, crashes>>

\* Del, whoever set the key.
Del(l) ==
    /\ lpc[l] = "delete" /\ Runs(l)
    /\ key' = FALSE
    /\ Goto(l, IF Cancelled(l) THEN "none" ELSE "try")
    /\ UNCHANGED <<url, current, stalled, stalls, crashes>>

\* Mutant: the key is set without a time to live.
NoExpiry == key /\ ~key /\ UNCHANGED vars

\* The key's time to live is over: nobody renews it, or is about to delete it.
Expire ==
    /\ key /\ \A l \in Loops : Runs(l) => lpc[l] \notin {"dial", "up", "delete"}
    /\ key' = FALSE
    /\ UNCHANGED <<url, current, lpc, stalled, stalls, crashes>>

Stall(i) ==
    /\ i \notin stalled /\ stalls < MaxStalls
    /\ stalled' = stalled \cup {i} /\ stalls' = stalls + 1
    /\ UNCHANGED <<url, current, lpc, key, crashes>>

Wake(i) ==
    /\ i \in stalled
    /\ stalled' = stalled \ {i}
    /\ UNCHANGED <<url, current, lpc, key, stalls, crashes>>

\* The process dies: its connections end, the key stays.
Crash(i) ==
    /\ crashes < MaxCrashes
    /\ crashes' = crashes + 1
    /\ current' = [current EXCEPT ![i] = 0]
    /\ lpc' = [l \in Loops |-> IF l[1] = i THEN "none" ELSE lpc[l]]
    /\ stalled' = stalled \ {i}
    /\ UNCHANGED <<url, key, stalls>>

Loop(l) == SetNX(l) \/ Dial(l) \/ Cancel(l) \/ Del(l)

Next ==
    \/ SetUrl \/ Expire
    \/ \E i \in Instances : Reconcile(i) \/ Stall(i) \/ Wake(i) \/ Crash(i)
    \/ \E l \in Loops : Loop(l) \/ Drop(l)

\* Watchers and loops run, keys expire, stalled processes wake up.
Fairness ==
    /\ WF_vars(Expire)
    /\ \A i \in Instances : WF_vars(Reconcile(i)) /\ WF_vars(Wake(i))
    /\ \A l \in Loops : WF_vars(Loop(l))

Spec == Init /\ [][Next]_vars /\ Fairness

----------------------------------------------------------------------------
(* Properties.                                                             *)

TypeOK ==
    /\ url \in Urls /\ current \in [Instances -> 0 .. MaxUrl]
    /\ lpc \in [Loops -> {"none", "try", "dial", "up", "delete"}]
    /\ key \in BOOLEAN /\ stalled \subseteq Instances
    /\ stalls \in Nat /\ crashes \in Nat

\* One instance at a time dials the runner; each stall that outlived the key adds
\* at most one more, however many keys the loops then delete of each other
\* (reverseDialLoop, reverse.go:76-127).
OneDialer == Cardinality(Dialing) <= 1 + stalls

\* The runner is dialled at its present URL, or connected there, again and again:
\* after crashes, stalls, a change of the URL and keys that nobody deletes
\* (reconcileReverse, reverseDialLoop; reverse.go:44-127).
StaysDialled == []<>(\E i \in Instances : <<i, url>> \in Dialing)

=============================================================================
