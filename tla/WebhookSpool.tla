---------------------------- MODULE WebhookSpool ----------------------------
(***************************************************************************)
(* The event spool: events written as files, and dispatchers of several    *)
(* nodes that share the directory.  A dispatcher claims a file by renaming *)
(* it, hands the event to the handlers and removes the file; a claim whose *)
(* file is older than spoolClaimStale is renamed back.  The rename keeps   *)
(* the modification time, so the age is that of the event, not of the      *)
(* claim.                                                                  *)
(* Source: src/backend/internal/webhooks/webhooks.go.                      *)
(***************************************************************************)
EXTENDS Naturals

CONSTANTS
    Events,    \* events, each with a file name of its own
    Nodes,     \* dispatchers on the same directory
    MaxStarts, \* bound on how often a claim of an event that was started is taken back
    MaxCrashes \* bound on the crashes of nodes

VARIABLES
    file,    \* the event's file: "unwritten", "json", "claimed" or "gone"
    old,     \* its modification time is more than spoolClaimStale ago
    npc,     \* where each dispatcher is: "scan", "read", "handle" or "remove"
    cur,     \* the event it works on, or NoEvent
    started, \* how often the handlers were started with the event
    handled, \* how often they all returned
    stolen,  \* a claim of the event was renamed back while its node was alive
    crashes

vars == <<file, old, npc, cur, started, handled, stolen, crashes>>

NoEvent == "none"

\* No event is called none.
SpoolAssumption == NoEvent \notin Events

Init ==
    /\ file = [e \in Events |-> "unwritten"]
    /\ old = [e \in Events |-> FALSE]
    /\ npc = [n \in Nodes |-> "scan"] /\ cur = [n \in Nodes |-> NoEvent]
    /\ started = [e \in Events |-> 0] /\ handled = [e \in Events |-> 0]
    /\ stolen = [e \in Events |-> FALSE]
    /\ crashes = 0

\* WriteSpool: a temporary file, then a rename.
WriteSpool(e) ==
    /\ file[e] = "unwritten"
    /\ file' = [file EXCEPT ![e] = "json"]
    /\ UNCHANGED <<old, npc, cur, started, handled, stolen, crashes>>

\* A quarter of an hour goes by.
Age(e) ==
    /\ file[e] \in {"json", "claimed"} /\ ~old[e]
    /\ old' = [old EXCEPT ![e] = TRUE]
    /\ UNCHANGED <<file, npc, cur, started, handled, stolen, crashes>>

\* Mutant: only a claim of this node is taken back.
ReclaimOwn(n, e) ==
    /\ npc[n] = "scan"
    /\ file[e] = "claimed" /\ old[e] /\ cur[n] = e
    /\ file' = [file EXCEPT ![e] = "json"]
    /\ UNCHANGED <<old, npc, cur, started, handled, stolen, crashes>>

\* Mutant: a claim is taken back at any age.
ReclaimAny(n, e) ==
    /\ npc[n] = "scan"
    /\ file[e] = "claimed" /\ started[e] < MaxStarts
    /\ file' = [file EXCEPT ![e] = "json"]
    /\ stolen' = [stolen EXCEPT ![e] = @ \/ \E m \in Nodes : cur[m] = e]
    /\ UNCHANGED <<old, npc, cur, started, handled, crashes>>

\* reclaimStaleClaims: whoever claimed the file, and however lately.
ReclaimStale(n, e) ==
    /\ npc[n] = "scan"
    /\ file[e] = "claimed" /\ old[e] /\ started[e] < MaxStarts
    /\ file' = [file EXCEPT ![e] = "json"]
    /\ stolen' = [stolen EXCEPT ![e] = @ \/ \E m \in Nodes : cur[m] = e]
    /\ UNCHANGED <<old, npc, cur, started, handled, crashes>>

\* The rename fails for all but one of the dispatchers that listed the file.
Claim(n, e) ==
    /\ npc[n] = "scan"
    /\ file[e] = "json"
    /\ file' = [file EXCEPT ![e] = "claimed"]
    /\ npc' = [npc EXCEPT ![n] = "read"]
    /\ cur' = [cur EXCEPT ![n] = e]
    /\ UNCHANGED <<old, started, handled, stolen, crashes>>

\* Mutant: the file goes as soon as it is read.
ReadRemoves(n) ==
    /\ npc[n] = "read"
    /\ IF file[cur[n]] = "claimed"
       THEN /\ npc' = [npc EXCEPT ![n] = "handle"]
            /\ started' = [started EXCEPT ![cur[n]] = @ + 1]
       ELSE /\ npc' = [npc EXCEPT ![n] = "remove"]
            /\ UNCHANGED started
    /\ file' = [file EXCEPT ![cur[n]] = IF @ = "claimed" THEN "gone" ELSE @]
    /\ UNCHANGED <<old, cur, handled, stolen, crashes>>

\* processClaimed reads the claimed file; one that is not there is removed.
Read(n) ==
    /\ npc[n] = "read"
    /\ IF file[cur[n]] = "claimed"
       THEN /\ npc' = [npc EXCEPT ![n] = "handle"]
            /\ started' = [started EXCEPT ![cur[n]] = @ + 1]
       ELSE /\ npc' = [npc EXCEPT ![n] = "remove"]
            /\ UNCHANGED started
    /\ UNCHANGED <<file, old, cur, handled, stolen, crashes>>

\* Webhooks and mirror are enqueued, the handlers called, all in turn.
Handle(n) ==
    /\ npc[n] = "handle"
    /\ handled' = [handled EXCEPT ![cur[n]] = @ + 1]
    /\ npc' = [npc EXCEPT ![n] = "remove"]
    /\ UNCHANGED <<file, old, cur, started, stolen, crashes>>

\* Remove names the claimed file, whoever claimed it by now.
Remove(n) ==
    /\ npc[n] = "remove"
    /\ file' = [file EXCEPT ![cur[n]] = IF @ = "claimed" THEN "gone" ELSE @]
    /\ npc' = [npc EXCEPT ![n] = "scan"]
    /\ cur' = [cur EXCEPT ![n] = NoEvent]
    /\ UNCHANGED <<old, started, handled, stolen, crashes>>

\* A node dies and comes back; files stay.
Crash(n) ==
    /\ cur[n] # NoEvent /\ crashes < MaxCrashes
    /\ crashes' = crashes + 1
    /\ npc' = [npc EXCEPT ![n] = "scan"]
    /\ cur' = [cur EXCEPT ![n] = NoEvent]
    /\ UNCHANGED <<file, old, started, handled, stolen>>

Drain(n) ==
    \/ \E e \in Events : ReclaimStale(n, e) \/ Claim(n, e)
    \/ Read(n) \/ Handle(n) \/ Remove(n)

Next ==
    \/ \E e \in Events : WriteSpool(e) \/ Age(e)
    \/ \E n \in Nodes : Drain(n) \/ Crash(n)

\* Time passes, a dispatcher whose node is up ticks again, and each pass tries
\* every file it listed.
Fairness ==
    /\ \A e \in Events :
         WF_vars(Age(e)) /\ SF_vars(\E n \in Nodes : ReclaimStale(n, e) \/ Claim(n, e))
    /\ \A n \in Nodes : WF_vars(Drain(n))

Spec == Init /\ [][Next]_vars /\ Fairness

----------------------------------------------------------------------------
(* Properties.                                                             *)

TypeOK ==
    /\ file \in [Events -> {"unwritten", "json", "claimed", "gone"}]
    /\ old \in [Events -> BOOLEAN] /\ stolen \in [Events -> BOOLEAN]
    /\ npc \in [Nodes -> {"scan", "read", "handle", "remove"}]
    /\ cur \in [Nodes -> Events \cup {NoEvent}]
    /\ \A n \in Nodes : npc[n] = "scan" <=> cur[n] = NoEvent
    /\ {started, handled} \subseteq [Events -> Nat] /\ crashes \in Nat

\* An event leaves the spool only after every handler returned for it, across
\* crashes of any node, unless a claim was taken from a node that was alive:
\* then the first node's Remove may delete the second one's claim unread
\* (processClaimed, webhooks.go:212-266).
NotLost == \A e \in Events : file[e] = "gone" => handled[e] > 0 \/ stolen[e]

\* Nodes that share the directory do not handle an event twice, unless its node
\* crashed with it or the event was old enough to be taken from a live one
\* (the claim by rename, webhooks.go:165-167).
HandledOnce == \A e \in Events : started[e] > 1 => old[e] /\ (stolen[e] \/ crashes > 0)

\* Every event written is handled in the end, even when nodes die with it.
EventHandled == []<>(\A e \in Events : file[e] = "unwritten" \/ handled[e] > 0 \/ stolen[e])

=============================================================================
