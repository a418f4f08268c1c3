-------------------------- MODULE KeyedMutexProofs --------------------------
(***************************************************************************)
(* KeyedMutex excludes for any finite set of threads and any keys and      *)
(* entries, and its map holds an entry exactly as long as a thread has it. *)
(***************************************************************************)
EXTENDS KeyedMutex, FiniteSetTheorems, TLAPS

\* The threads that entered an entry, waiting for it or not.
Users(e) == {t \in Threads : at[t] = e}

\* A thread is at the entry of the key it asked for.
AtItsKey ==
    \A t \in Threads :
        /\ kpc[t] = "out" => at[t] = None /\ want[t] = None
        /\ kpc[t] # "out" => want[t] \in Keys /\ at[t] \in Entries /\ map[want[t]] = at[t]

\* refs counts the threads.
RefsCount == \A e \in Entries : refs[e] = Cardinality(Users(e))

\* The entry of a thread that holds the lock says so.
OwnerHolds == \A t \in Threads : kpc[t] = "held" => owner[at[t]] = t

\* Two keys never share an entry, and every entry in the map has a user.
MapIsUsed ==
    /\ \A k, l \in Keys : map[k] = map[l] /\ map[k] # None => k = l
    /\ \A k \in Keys : map[k] # None => \E t \in Threads : want[t] = k

IInv == TypeOK /\ AtItsKey /\ RefsCount /\ OwnerHolds /\ MapIsUsed

USE KeyedMutexAssumption DEF None

LEMMA InitIInv == Init => IInv
<1> SUFFICES ASSUME Init PROVE IInv
    OBVIOUS
<1>1. TypeOK
    BY DEF Init, TypeOK
<1>2. AtItsKey /\ OwnerHolds /\ MapIsUsed
    BY DEF Init, AtItsKey, OwnerHolds, MapIsUsed
<1>3. RefsCount
  <2> SUFFICES ASSUME NEW e \in Entries PROVE refs[e] = Cardinality(Users(e))
      BY DEF RefsCount
  <2>1. Users(e) = {}
      BY DEF Init, Users
  <2> QED
      BY <2>1, FS_EmptySet DEF Init
<1> QED
    BY <1>1, <1>2, <1>3 DEF IInv

\* A thread joins the users of the entry it enters, and only of that one.
LEMMA UsersJoin ==
    ASSUME TypeOK, NEW t \in Threads, NEW e \in Entries, at[t] = None,
           at' = [at EXCEPT ![t] = e]
    PROVE  /\ Cardinality(Users(e)') = Cardinality(Users(e)) + 1
           /\ \A f \in Entries \ {e} : Users(f)' = Users(f)
<1>1. Users(e)' = Users(e) \cup {t} /\ t \notin Users(e)
    BY DEF TypeOK, Users
<1>2. IsFiniteSet(Users(e))
    BY FS_Subset DEF Users
<1>3. Cardinality(Users(e)') = Cardinality(Users(e)) + 1
    BY <1>1, <1>2, FS_AddElement
<1>4. \A f \in Entries \ {e} : Users(f)' = Users(f)
    BY DEF TypeOK, Users
<1> QED
    BY <1>3, <1>4

\* It leaves the users of the entry it was at, and only of that one.
LEMMA UsersLeave ==
    ASSUME TypeOK, NEW t \in Threads, at[t] \in Entries, at' = [at EXCEPT ![t] = None]
    PROVE  /\ Cardinality(Users(at[t])) \in Nat \ {0}
           /\ \A f \in Entries :
                Cardinality(Users(f)') =
                    IF f = at[t] THEN Cardinality(Users(f)) - 1 ELSE Cardinality(Users(f))
           /\ Cardinality(Users(at[t])) - 1 = 0 => \A u \in Threads \ {t} : at[u] # at[t]
           /\ Cardinality(Users(at[t])) - 1 # 0 => \E u \in Threads \ {t} : at[u] = at[t]
<1> DEFINE e == at[t]
           R == {u \in Threads \ {t} : at[u] = e}
<1>1. IsFiniteSet(R) /\ t \notin R /\ Users(e) = R \cup {t}
    BY FS_Subset DEF Users
<1>2. Cardinality(R) \in Nat /\ Cardinality(Users(e)) = Cardinality(R) + 1
    BY <1>1, FS_AddElement, FS_CardinalityType
<1>3. \A f \in Entries : {u \in Threads : at'[u] = f} = IF f = e THEN R ELSE Users(f)
    BY DEF TypeOK, Users
<1>4. \A f \in Entries : Users(f)' = IF f = e THEN R ELSE Users(f)
    BY <1>3 DEF Users
<1>5. Cardinality(R) = 0 <=> R = {}
    BY <1>1, FS_EmptySet
<1> QED
  <2>1. Cardinality(Users(e)) \in Nat \ {0} /\ Cardinality(Users(e)) - 1 = Cardinality(R)
      BY <1>2
  <2>2. \A f \in Entries :
          Cardinality(Users(f)') =
              IF f = e THEN Cardinality(Users(f)) - 1 ELSE Cardinality(Users(f))
      BY <1>4, <2>1
  <2> QED
      BY <1>5, <2>1, <2>2

LEMMA EnterIInv ==
    ASSUME IInv, NEW t \in Threads, NEW k \in Keys, Enter(t, k)
    PROVE  IInv'
<1> USE DEF IInv
<1>1. PICK e \in Entries :
        /\ IF map[k] = None
           THEN /\ e \notin Live
                /\ map' = [map EXCEPT ![k] = e]
                /\ refs' = [refs EXCEPT ![e] = 1]
                /\ owner' = [owner EXCEPT ![e] = None]
           ELSE /\ e = map[k]
                /\ refs' = [refs EXCEPT ![e] = @ + 1]
                /\ UNCHANGED <<map, owner>>
        /\ at' = [at EXCEPT ![t] = e]
    BY DEF Enter
<1>2. /\ kpc[t] = "out" /\ at[t] = None
      /\ want' = [want EXCEPT ![t] = k]
      /\ kpc' = [kpc EXCEPT ![t] = "wait"]
    BY DEF Enter, AtItsKey
<1>3. /\ Cardinality(Users(e)') = Cardinality(Users(e)) + 1
      /\ \A f \in Entries \ {e} : Users(f)' = Users(f)
    BY <1>1, <1>2, UsersJoin
<1>4. map[k] = None =>
        /\ \A u \in Threads : at[u] # e /\ want[u] # k
        /\ \A l \in Keys : map[l] # e
    BY <1>1 DEF Live, AtItsKey, TypeOK
<1>5. map'[k] = e /\ \A l \in Keys \ {k} : map'[l] = map[l]
    BY <1>1 DEF TypeOK
<1>6. TypeOK'
    BY <1>1, <1>2 DEF TypeOK
<1>7. AtItsKey'
  <2> SUFFICES ASSUME NEW u \in Threads
               PROVE /\ kpc'[u] = "out" => at'[u] = None /\ want'[u] = None
                     /\ kpc'[u] # "out" => /\ want'[u] \in Keys /\ at'[u] \in Entries
                                           /\ map'[want'[u]] = at'[u]
      BY DEF AtItsKey
  <2>1. CASE u = t
      BY <2>1, <1>1, <1>2, <1>5 DEF TypeOK
  <2>2. CASE u # t
    <3>1. kpc'[u] = kpc[u] /\ at'[u] = at[u] /\ want'[u] = want[u]
        BY <2>2, <1>1, <1>2 DEF TypeOK
    <3>2. want[u] = k => map[k] = e
        BY <1>1, <1>4
    <3> QED
        BY <3>1, <3>2, <1>5 DEF AtItsKey
  <2> QED
      BY <2>1, <2>2
<1>8. RefsCount'
  <2> SUFFICES ASSUME NEW f \in Entries PROVE refs'[f] = Cardinality(Users(f)')
      BY DEF RefsCount
  <2>1. CASE f # e
      BY <2>1, <1>1, <1>3 DEF RefsCount, TypeOK
  <2>2. CASE f = e /\ map[k] # None
      BY <2>2, <1>1, <1>3 DEF RefsCount, TypeOK
  <2>3. CASE f = e /\ map[k] = None
    <3>1. Users(e) = {}
        BY <2>3, <1>4 DEF Users
    <3>2. Cardinality(Users(e)) = 0
        BY <3>1, FS_EmptySet
    <3> QED
        BY <2>3, <3>2, <1>1, <1>3 DEF TypeOK
  <2> QED
      BY <2>1, <2>2, <2>3
<1>9. OwnerHolds'
  <2> SUFFICES ASSUME NEW u \in Threads, kpc'[u] = "held" PROVE owner'[at'[u]] = u
      BY DEF OwnerHolds
  <2>1. u # t /\ kpc[u] = "held" /\ at'[u] = at[u]
      BY <1>1, <1>2 DEF TypeOK
  <2>2. owner'[at[u]] = owner[at[u]]
      BY <2>1, <1>1, <1>4 DEF AtItsKey, TypeOK
  <2> QED
      BY <2>1, <2>2 DEF OwnerHolds
<1>10. MapIsUsed'
  <2>1. ASSUME NEW l \in Keys, NEW m \in Keys, map'[l] = map'[m], map'[l] # None
        PROVE  l = m
      BY <2>1, <1>1, <1>4, <1>5 DEF MapIsUsed
  <2>2. ASSUME NEW l \in Keys, map'[l] # None
        PROVE  \E u \in Threads : want'[u] = l
    <3>1. CASE l = k
        BY <3>1, <1>2 DEF TypeOK
    <3>2. CASE l # k
      <4>1. PICK u \in Threads : want[u] = l
          BY <2>2, <3>2, <1>5 DEF MapIsUsed
      <4>2. u # t
          BY <4>1, <1>2 DEF AtItsKey
      <4> QED
          BY <4>1, <4>2, <1>2 DEF TypeOK
    <3> QED
        BY <3>1, <3>2
  <2> QED
      BY <2>1, <2>2 DEF MapIsUsed
<1> QED
    BY <1>6, <1>7, <1>8, <1>9, <1>10

\* Acquire and Unlock leave the map and its counts alone.
LEMMA SameUsers ==
    ASSUME AtItsKey, RefsCount, MapIsUsed, UNCHANGED <<map, refs, at, want>>,
           \A t \in Threads : kpc'[t] = "out" <=> kpc[t] = "out"
    PROVE  AtItsKey' /\ RefsCount' /\ MapIsUsed'
<1>1. AtItsKey'
    BY DEF AtItsKey
<1>2. RefsCount'
    BY DEF RefsCount, Users
<1>3. MapIsUsed'
    BY DEF MapIsUsed
<1> QED
    BY <1>1, <1>2, <1>3

LEMMA AcquireIInv ==
    ASSUME IInv, NEW t \in Threads, Acquire(t)
    PROVE  IInv'
<1> USE DEF IInv
<1>1. at[t] \in Entries
    BY DEF Acquire, AtItsKey
<1>2. TypeOK'
    BY <1>1 DEF Acquire, TypeOK
<1>3. AtItsKey' /\ RefsCount' /\ MapIsUsed'
  <2>1. \A u \in Threads : kpc'[u] = "out" <=> kpc[u] = "out"
      BY DEF Acquire, TypeOK
  <2> QED
      BY <2>1, SameUsers DEF Acquire
<1>4. OwnerHolds'
    BY <1>1 DEF Acquire, OwnerHolds, TypeOK
<1> QED
    BY <1>2, <1>3, <1>4

LEMMA UnlockIInv ==
    ASSUME IInv, NEW t \in Threads, Unlock(t)
    PROVE  IInv'
<1> USE DEF IInv
<1>1. at[t] \in Entries /\ owner[at[t]] = t
    BY DEF Unlock, AtItsKey, OwnerHolds
<1>2. TypeOK'
    BY <1>1 DEF Unlock, TypeOK
<1>3. AtItsKey' /\ RefsCount' /\ MapIsUsed'
  <2>1. \A u \in Threads : kpc'[u] = "out" <=> kpc[u] = "out"
      BY DEF Unlock, TypeOK
  <2> QED
      BY <2>1, SameUsers DEF Unlock
<1>4. OwnerHolds'
    BY <1>1 DEF Unlock, OwnerHolds, TypeOK
<1> QED
    BY <1>2, <1>3, <1>4

LEMMA LeaveIInv ==
    ASSUME IInv, NEW t \in Threads, Leave(t)
    PROVE  IInv'
<1> USE DEF IInv
<1> DEFINE e == at[t]
           k == want[t]
<1>1. /\ kpc[t] = "leave" /\ e \in Entries /\ k \in Keys /\ map[k] = e
      /\ refs' = [refs EXCEPT ![e] = @ - 1]
      /\ map' = IF refs'[e] = 0 THEN [map EXCEPT ![k] = None] ELSE map
      /\ at' = [at EXCEPT ![t] = None]
      /\ want' = [want EXCEPT ![t] = None]
      /\ kpc' = [kpc EXCEPT ![t] = "out"]
      /\ owner' = owner
    BY DEF Leave, AtItsKey
<1>2. /\ Cardinality(Users(e)) \in Nat \ {0}
      /\ \A f \in Entries :
           Cardinality(Users(f)') =
               IF f = e THEN Cardinality(Users(f)) - 1 ELSE Cardinality(Users(f))
      /\ Cardinality(Users(e)) - 1 = 0 => \A u \in Threads \ {t} : at[u] # e
      /\ Cardinality(Users(e)) - 1 # 0 => \E u \in Threads \ {t} : at[u] = e
    BY <1>1, UsersLeave
<1>3. refs[e] = Cardinality(Users(e)) /\ refs'[e] = Cardinality(Users(e)) - 1
    BY <1>1 DEF RefsCount, TypeOK
<1>4. \A u \in Threads \ {t} : kpc'[u] = kpc[u] /\ at'[u] = at[u] /\ want'[u] = want[u]
    BY <1>1 DEF TypeOK
<1>5. kpc'[t] = "out" /\ at'[t] = None /\ want'[t] = None
    BY <1>1 DEF TypeOK
<1>6. \A l \in Keys : map'[l] = map[l] \/ (l = k /\ map'[l] = None)
    BY <1>1 DEF TypeOK
<1>7. TypeOK'
  <2>1. refs' \in [Entries -> Nat]
      BY <1>1, <1>2, <1>3 DEF TypeOK
  <2>2. map' \in [Keys -> Entries \cup {None}]
      BY <1>1 DEF TypeOK
  <2> QED
      BY <2>1, <2>2, <1>1 DEF TypeOK
<1>8. AtItsKey'
  <2> SUFFICES ASSUME NEW u \in Threads \ {t}, kpc[u] # "out"
               PROVE  map'[want[u]] = at[u]
      BY <1>4, <1>5 DEF AtItsKey
  <2>1. want[u] \in Keys /\ map[want[u]] = at[u] /\ at[u] # None
      BY DEF AtItsKey
  <2>2. CASE map' = map
      BY <2>1, <2>2
  <2>3. CASE refs'[e] = 0
    <3>1. at[u] # e
        BY <2>3, <1>2, <1>3
    <3>2. want[u] # k
        BY <3>1, <2>1, <1>1
    <3> QED
        BY <3>2, <2>1, <1>6
  <2> QED
      BY <2>2, <2>3, <1>1
<1>9. RefsCount'
    BY <1>1, <1>2, <1>3 DEF RefsCount, TypeOK
<1>10. OwnerHolds'
    BY <1>1, <1>4, <1>5 DEF OwnerHolds
<1>11. MapIsUsed'
  <2>1. ASSUME NEW l \in Keys, NEW m \in Keys, map'[l] = map'[m], map'[l] # None
        PROVE  l = m
      BY <2>1, <1>6 DEF MapIsUsed
  <2>2. ASSUME NEW l \in Keys, map'[l] # None
        PROVE  \E u \in Threads : want'[u] = l
    <3>1. map[l] = map'[l]
        BY <2>2, <1>6
    <3>2. PICK u \in Threads : want[u] = l
        BY <2>2, <3>1 DEF MapIsUsed
    <3>3. CASE u # t
        BY <3>2, <3>3, <1>4
    <3>4. CASE u = t
      <4>1. l = k /\ refs'[e] # 0
          BY <3>2, <3>4, <2>2, <1>1 DEF TypeOK
      <4>2. PICK w \in Threads \ {t} : at[w] = e
          BY <4>1, <1>2, <1>3
      <4>3. want[w] \in Keys /\ map[want[w]] = e
          BY <4>2, <1>1 DEF AtItsKey, TypeOK
      <4>4. want[w] = k
          BY <4>3, <1>1 DEF MapIsUsed
      <4> QED
          BY <4>1, <4>4, <1>4
    <3> QED
        BY <3>3, <3>4
  <2> QED
      BY <2>1, <2>2 DEF MapIsUsed
<1> QED
    BY <1>7, <1>8, <1>9, <1>10, <1>11

LEMMA NextIInv == IInv /\ [Next]_kvars => IInv'
<1> SUFFICES ASSUME IInv, [Next]_kvars PROVE IInv'
    OBVIOUS
<1>1. ASSUME NEW t \in Threads, NEW k \in Keys, Enter(t, k) PROVE IInv'
    BY <1>1, EnterIInv
<1>2. ASSUME NEW t \in Threads, Acquire(t) PROVE IInv'
    BY <1>2, AcquireIInv
<1>3. ASSUME NEW t \in Threads, Unlock(t) PROVE IInv'
    BY <1>3, UnlockIInv
<1>4. ASSUME NEW t \in Threads, Leave(t) PROVE IInv'
    BY <1>4, LeaveIInv
<1>5. CASE UNCHANGED kvars
    BY <1>5 DEF IInv, kvars, TypeOK, AtItsKey, RefsCount, Users, OwnerHolds, MapIsUsed
<1> QED
    BY <1>1, <1>2, <1>3, <1>4, <1>5 DEF Next, Step

LEMMA SpecIInv == Spec => []IInv
    BY InitIInv, NextIInv, PTL DEF Spec

\* Every state is well typed; refs never goes below zero.
THEOREM TypeCorrect == Spec => []TypeOK
<1>1. IInv => TypeOK
    BY DEF IInv
<1> QED
    BY <1>1, SpecIInv, PTL

\* Two threads never hold the lock of one key (keyedMutex.lock, jobs.go:109-133).
THEOREM MutexExcludes == Spec => []Exclusion
<1>1. IInv => Exclusion
    BY DEF IInv, AtItsKey, OwnerHolds, Exclusion
<1> QED
    BY <1>1, SpecIInv, PTL

\* The map has an entry for a key exactly as long as some thread asked for it.
THEOREM MutexKeepsNoEntry == Spec => []NoEntryLeaks
<1>1. IInv => NoEntryLeaks
  <2> SUFFICES ASSUME IInv, NEW k \in Keys
               PROVE  (map[k] # None) <=> (\E t \in Threads : want[t] = k)
      BY DEF NoEntryLeaks
  <2>1. ASSUME NEW t \in Threads, want[t] = k PROVE map[k] # None
      BY <2>1 DEF IInv, AtItsKey
  <2> QED
      BY <2>1 DEF IInv, MapIsUsed
<1> QED
    BY <1>1, SpecIInv, PTL

=============================================================================
