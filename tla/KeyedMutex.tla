----------------------------- MODULE KeyedMutex -----------------------------
(***************************************************************************)
(* The lock per key that serialises the mirror pushes of a repository: a   *)
(* map from keys to entries, each a mutex with a count of the threads that *)
(* hold it or wait for it; the last one to leave removes the entry.  The   *)
(* sections under the map's own mutex are one action each.  An entry that  *)
(* nothing refers to any more is free to be allocated again.               *)
(* Source: src/backend/internal/jobs/jobs.go, keyedMutex.                  *)
(***************************************************************************)
EXTENDS Naturals, FiniteSets

CONSTANTS Threads, Keys, Entries

None == "none"

ASSUME KeyedMutexAssumption == None \notin Threads \cup Keys \cup Entries /\ IsFiniteSet(Threads)

VARIABLES
    map,    \* keyedMutex.m: the entry of a key, or None
    refs,   \* keyedMutexEntry.refs
    owner,  \* keyedMutexEntry.mu: the thread that holds it, or None
    at,     \* the entry a thread entered with lock, or None
    want,   \* the key it asked for, or None
    kpc     \* where it is: "out", "wait", "held" or "leave"

kvars == <<map, refs, owner, at, want, kpc>>

\* Entries some thread or the map still points to.
Live == {e \in Entries : (\E k \in Keys : map[k] = e) \/ (\E t \in Threads : at[t] = e)}

Init ==
    /\ map = [k \in Keys |-> None]
    /\ refs = [e \in Entries |-> 0] /\ owner = [e \in Entries |-> None]
    /\ at = [t \in Threads |-> None] /\ want = [t \in Threads |-> None]
    /\ kpc = [t \in Threads |-> "out"]

\* lock, under k.mu: find or make the entry, count this thread in.
Enter(t, k) ==
    /\ kpc[t] = "out"
    /\ \E e \in Entries :
         /\ IF map[k] = None
            THEN /\ e \notin Live
                 /\ map' = [map EXCEPT ![k] = e]
                 /\ refs' = [refs EXCEPT ![e] = 1]
                 /\ owner' = [owner EXCEPT ![e] = None]
            ELSE /\ e = map[k]
                 /\ refs' = [refs EXCEPT ![e] = @ + 1]
                 /\ UNCHANGED <<map, owner>>
         /\ at' = [at EXCEPT ![t] = e]
    /\ want' = [want EXCEPT ![t] = k]
    /\ kpc' = [kpc EXCEPT ![t] = "wait"]

\* e.mu.Lock()
Acquire(t) ==
    /\ kpc[t] = "wait" /\ owner[at[t]] = None
    /\ owner' = [owner EXCEPT ![at[t]] = t]
    /\ kpc' = [kpc EXCEPT ![t] = "held"]
    /\ UNCHANGED <<map, refs, at, want>>

\* The release function: e.mu.Unlock() ...
Unlock(t) ==
    /\ kpc[t] = "held"
    /\ owner' = [owner EXCEPT ![at[t]] = None]
    /\ kpc' = [kpc EXCEPT ![t] = "leave"]
    /\ UNCHANGED <<map, refs, at, want>>

\* Mutant: the entry goes when its holder leaves, whoever waits for it.
LeaveRemoves(t) ==
    /\ kpc[t] = "leave"
    /\ refs' = [refs EXCEPT ![at[t]] = @ - 1]
    /\ map' = [map EXCEPT ![want[t]] = None]
    /\ at' = [at EXCEPT ![t] = None]
    /\ want' = [want EXCEPT ![t] = None]
    /\ kpc' = [kpc EXCEPT ![t] = "out"]
    /\ UNCHANGED owner

\* ... and, under k.mu, count this thread out and remove an entry nobody needs.
Leave(t) ==
    /\ kpc[t] = "leave"
    /\ refs' = [refs EXCEPT ![at[t]] = @ - 1]
    /\ map' = IF refs'[at[t]] = 0 THEN [map EXCEPT ![want[t]] = None] ELSE map
    /\ at' = [at EXCEPT ![t] = None]
    /\ want' = [want EXCEPT ![t] = None]
    /\ kpc' = [kpc EXCEPT ![t] = "out"]
    /\ UNCHANGED owner

Step(t) == (\E k \in Keys : Enter(t, k)) \/ Acquire(t) \/ Unlock(t) \/ Leave(t)
Next == \E t \in Threads : Step(t)
Spec == Init /\ [][Next]_kvars

----------------------------------------------------------------------------
(* Properties.                                                             *)

TypeOK ==
    /\ map \in [Keys -> Entries \cup {None}]
    /\ refs \in [Entries -> Nat]
    /\ owner \in [Entries -> Threads \cup {None}]
    /\ at \in [Threads -> Entries \cup {None}]
    /\ want \in [Threads -> Keys \cup {None}]
    /\ kpc \in [Threads -> {"out", "wait", "held", "leave"}]

\* Two threads never hold the lock of the same key, although entries are removed
\* and made again while others wait (keyedMutex.lock, jobs.go:109-133).
Exclusion ==
    \A t, u \in Threads :
        kpc[t] = "held" /\ kpc[u] = "held" /\ want[t] = want[u] => t = u

\* The map keeps an entry exactly as long as some thread has it: it neither
\* grows for good nor loses the entry of a waiter.
NoEntryLeaks ==
    \A k \in Keys : (map[k] # None) <=> (\E t \in Threads : want[t] = k)

=============================================================================
