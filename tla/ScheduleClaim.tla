--------------------------- MODULE ScheduleClaim ---------------------------
(***************************************************************************)
(* The cron scheduler of one pipeline file and one cron expression: every  *)
(* instance reads the clock, looks up when the schedule was last claimed,  *)
(* works out whether a tick is due, claims it with a conditional update    *)
(* and triggers a run.  Time is in seconds; ticks are the multiples of     *)
(* Period.                                                                 *)
(* Source: src/backend/internal/pipeline/schedule.go,                      *)
(* internal/store/pipeline.go.                                             *)
(***************************************************************************)
EXTENDS Naturals

CONSTANTS
    Instances,  \* servers on one database
    Period,     \* seconds between two ticks of the cron expression
    MaxTime,    \* bound on the clock
    MaxCrashes  \* bound on the crashes

VARIABLES
    clock,   \* seconds
    last,    \* pipeline_schedules.last_fired, NoRow when there is none
    pass,    \* each instance's pass: [pc, now, base, seen, n]
    fired,   \* passes that claimed a tick: [tick, now, seen, n, ok]
    claims,  \* successful claims so far
    from,    \* the time the schedule was last registered at
    crashes

vars == <<clock, last, pass, fired, claims, from, crashes>>

NoRow == MaxTime + 1
Idle  == [pc |-> "idle", now |-> 0, base |-> 0, seen |-> 0, n |-> 0]

\* Ticks are some time apart.
ScheduleAssumption == Period \in Nat \ {0} /\ MaxTime \in Nat

\* sched.Next: the first tick after b.
NextTick(b) == (b \div Period + 1) * Period

Init ==
    /\ clock = 0 /\ last = NoRow
    /\ pass = [i \in Instances |-> Idle]
    /\ fired = {} /\ claims = 0 /\ from = NoRow /\ crashes = 0

Tick ==
    /\ clock < MaxTime
    /\ clock' = clock + 1
    /\ UNCHANGED <<last, pass, fired, claims, from, crashes>>

\* RunScheduled takes the time once for the whole scan.
Scan(i) ==
    /\ pass[i].pc = "idle"
    /\ pass' = [pass EXCEPT ![i] = [Idle EXCEPT !.pc = "read", !.now = clock]]
    /\ UNCHANGED <<clock, last, fired, claims, from, crashes>>

\* GetScheduleLastFired: without a row only the time is registered; a tick that
\* is not due ends the pass.
Read(i) ==
    /\ pass[i].pc = "read"
    /\ pass' = [pass EXCEPT ![i] =
         IF last = NoRow THEN [@ EXCEPT !.pc = "register"]
         ELSE IF NextTick(last) > @.now THEN Idle
         ELSE [@ EXCEPT !.pc = "claim", !.base = last, !.seen = claims]]
    /\ UNCHANGED <<clock, last, fired, claims, from, crashes>>

\* Mutant: the update has no condition on last_fired.
ClaimableAlways(at) == at >= 0

\* ClaimSchedule: update where last_fired < at, or else insert.
Claimable(at) == last = NoRow \/ last < at

ClaimSchedule(at) ==
    IF Claimable(at) THEN last' = at /\ claims' = claims + 1 ELSE UNCHANGED <<last, claims>>

\* The first observation, also of an instance that is late with it.
Register(i) ==
    /\ pass[i].pc = "register"
    /\ ClaimSchedule(pass[i].now)
    /\ from' = IF Claimable(pass[i].now) THEN pass[i].now ELSE from
    /\ pass' = [pass EXCEPT ![i] = Idle]
    /\ UNCHANGED <<clock, fired, crashes>>

Claim(i) ==
    /\ pass[i].pc = "claim"
    /\ ClaimSchedule(pass[i].now)
    /\ pass' = [pass EXCEPT ![i] = IF Claimable(@.now)
                                    THEN [@ EXCEPT !.pc = "trigger", !.n = claims + 1] ELSE Idle]
    /\ UNCHANGED <<clock, fired, from, crashes>>

\* The ticks a pass stands for: from the first one after its base to its time.
Fire(i, ok) == [tick |-> NextTick(pass[i].base), now |-> pass[i].now,
                seen |-> pass[i].seen, n |-> pass[i].n, ok |-> ok]

\* Mutant: a pass that claimed a tick ends without triggering it.
TriggerNothing(i) ==
    /\ pass[i].pc = "trigger"
    /\ pass' = [pass EXCEPT ![i] = Idle]
    /\ UNCHANGED <<clock, last, fired, claims, from, crashes>>

Trigger(i) ==
    /\ pass[i].pc = "trigger"
    /\ fired' = fired \cup {Fire(i, TRUE)}
    /\ pass' = [pass EXCEPT ![i] = Idle]
    /\ UNCHANGED <<clock, last, claims, from, crashes>>

\* A claim is not undone when its instance dies before it triggered.
Crash(i) ==
    /\ pass[i].pc # "idle" /\ crashes < MaxCrashes
    /\ crashes' = crashes + 1
    /\ fired' = IF pass[i].pc = "trigger" THEN fired \cup {Fire(i, FALSE)} ELSE fired
    /\ pass' = [pass EXCEPT ![i] = Idle]
    /\ UNCHANGED <<clock, last, claims, from>>

Pass(i) == Scan(i) \/ Read(i) \/ Register(i) \/ Claim(i) \/ Trigger(i)

Next == Tick \/ \E i \in Instances : Pass(i) \/ Crash(i)

Spec == Init /\ [][Next]_vars

----------------------------------------------------------------------------
(* Properties.                                                             *)

TypeOK ==
    /\ clock \in 0 .. MaxTime /\ {last, from} \subseteq 0 .. NoRow
    /\ pass \in [Instances -> [pc : {"idle", "read", "register", "claim", "trigger"},
                               now : 0 .. MaxTime, base : 0 .. MaxTime,
                               seen : Nat, n : Nat]]
    /\ claims \in Nat /\ crashes \in Nat
    /\ fired \subseteq [tick : Nat, now : 0 .. MaxTime, seen : Nat, n : Nat, ok : BOOLEAN]

\* A cron tick is fired a second time only by a pass that looked at the schedule
\* before the first one claimed it: whoever reads the claimed row keeps still,
\* and the row never goes back (ClaimSchedule, store/pipeline.go:292-312).
TwiceOnlyOverlapping ==
    \A f, g \in fired : f.tick = g.tick /\ f.n < g.n => g.seen < f.n

\* No tick falls between two instances: every tick since the schedule was last
\* registered, up to last_fired, has a pass that claimed it, and only a crash
\* keeps such a pass from triggering a run.
NoTickSkipped ==
    LET claimed == fired \cup {Fire(i, TRUE) : i \in {j \in Instances : pass[j].pc = "trigger"}}
    IN last # NoRow => \A t \in from + 1 .. last :
         t % Period = 0 => \E f \in claimed : f.tick <= t /\ t <= f.now

=============================================================================
