-------------------------- MODULE PidTrackerProofs --------------------------
(***************************************************************************)
(* Proofs, for any number of goroutines and pids, that the pid tracker      *)
(* gives mutual exclusion per pid, counts its users exactly, never unlocks  *)
(* an unlocked mutex, and implements PidLock.                               *)
(***************************************************************************)
EXTENDS PidTracker, FiniteSetTheorems, TLAPS

(* Mutual exclusion rests on three facts that the code keeps together: no   *)
(* two pids share an entry, an entry in use stays in the table, and a       *)
(* goroutine that looked its entry up still has the one of the table.       *)
EntriesDistinct ==
    \A p, q \in Pids : pidTable[p] = pidTable[q] /\ pidTable[p] # NoEntry => p = q

LookupCurrent ==
    \A h \in Handlers : pc[h] = "acquire" =>
        pd[h] # NoEntry /\ pd[h] = pidTable[pid[h]]

IInv == /\ TypeOK /\ MutualExclusion /\ RefcntExact /\ UnlockFindsLocked
        /\ EntriesDistinct /\ LookupCurrent

USE PidTrackerAssumption DEF Steps, Tracked, Holding, Waiting, Goto, vars

(* The users of a pid are finitely many.                                    *)
LEMMA UsersFinite == \A p \in Pids : IsFiniteSet(Users(p))
BY FS_Subset DEF Users

(* A goroutine that is counted keeps the entry of its pid in the table and  *)
(* its count positive.                                                      *)
LEMMA CountedEntry ==
    ASSUME IInv, NEW h \in Handlers, pc[h] \in Tracked
    PROVE  /\ pid[h] \in Pids
           /\ pidTable[pid[h]] \in Entries
           /\ refcnt[pidTable[pid[h]]] \in Nat \ {0}
<1>1. pid[h] \in Pids /\ h \in Users(pid[h])
  BY DEF IInv, TypeOK, Users
<1>2. pidTable[pid[h]] \in Entries
  BY <1>1 DEF IInv, TypeOK, RefcntExact
<1>3. refcnt[pidTable[pid[h]]] = Cardinality(Users(pid[h]))
  BY <1>1 DEF IInv, RefcntExact
<1>4. Cardinality(Users(pid[h])) # 0
  BY <1>1, UsersFinite, FS_EmptySet
<1> QED
  BY <1>1, <1>2, <1>3, <1>4 DEF IInv, TypeOK

(* A step that changes the set of users of no pid, and neither the table    *)
(* nor the counts, keeps the counts exact.                                  *)
LEMMA SameUsers ==
    ASSUME IInv, UNCHANGED <<pidTable, refcnt>>,
           \A p \in Pids : Users(p)' = Users(p)
    PROVE  RefcntExact'
BY DEF IInv, RefcntExact

(* Init and every step keep the invariant.                                  *)
LEMMA InitIInv == Init => IInv
<1> SUFFICES ASSUME Init PROVE IInv
  OBVIOUS
<1>1. TypeOK /\ MutualExclusion /\ UnlockFindsLocked /\ EntriesDistinct /\ LookupCurrent
  BY DEF Init, TypeOK, MutualExclusion, UnlockFindsLocked, EntriesDistinct, LookupCurrent
<1>2. RefcntExact
  BY DEF Init, RefcntExact, Users
<1> QED
  BY <1>1, <1>2 DEF IInv

LEMMA NotifyIInv ==
    ASSUME IInv, NEW h \in Handlers, NEW p \in Pids, Notify(h, p)
    PROVE  IInv'
<1>1. TypeOK' /\ MutualExclusion' /\ UnlockFindsLocked' /\ EntriesDistinct' /\ LookupCurrent'
  BY DEF IInv, Notify, TypeOK, MutualExclusion, UnlockFindsLocked, EntriesDistinct, LookupCurrent
<1>2. \A q \in Pids : Users(q)' = Users(q)
  BY DEF IInv, Notify, TypeOK, Users
<1> QED
  BY <1>1, <1>2, SameUsers DEF IInv, Notify

LEMMA TrackNewIInv ==
    ASSUME IInv, NEW h \in Handlers, NEW e \in Entries, TrackNew(h, e)
    PROVE  IInv'
<1>1. pid[h] \in Pids /\ pidTable' \in [Pids -> Entries \cup {NoEntry}]
  BY DEF IInv, TrackNew, TypeOK
<1>2. Users(pid[h]) = {}
  BY <1>1 DEF IInv, TrackNew, RefcntExact
<1>3. TypeOK'
  BY <1>1 DEF IInv, TrackNew, TypeOK
<1>4. MutualExclusion'
  BY DEF IInv, TrackNew, TypeOK, MutualExclusion
<1>5. UnlockFindsLocked' /\ LookupCurrent'
  <2> SUFFICES ASSUME NEW g \in Handlers, pc'[g] \in Holding \cup {"acquire"}
               PROVE  /\ pd'[g] # NoEntry /\ pd'[g] = pidTable'[pid'[g]]
                      /\ pc'[g] \in Holding => locked'[pd'[g]]
    BY DEF UnlockFindsLocked, LookupCurrent
  <2>1. g # h /\ pc[g] \in Tracked /\ pid[g] \in Pids
    BY DEF IInv, TrackNew, TypeOK
  <2>2. pid[g] # pid[h]
    BY <2>1, <1>2 DEF Users
  <2> QED
    BY <2>1, <2>2, <1>1 DEF IInv, TrackNew, Unreferenced, TypeOK, UnlockFindsLocked, LookupCurrent
<1>6. EntriesDistinct'
  BY <1>1 DEF IInv, TrackNew, Unreferenced, TypeOK, EntriesDistinct
<1>7. RefcntExact'
  <2> SUFFICES ASSUME NEW q \in Pids
               PROVE  IF Users(q)' = {} THEN pidTable'[q] = NoEntry
                      ELSE /\ pidTable'[q] # NoEntry
                           /\ refcnt'[pidTable'[q]] = Cardinality(Users(q)')
    BY DEF RefcntExact
  <2>1. CASE q = pid[h]
    <3>1. Users(q)' = {h}
      BY <2>1, <1>2 DEF IInv, TrackNew, TypeOK, Users
    <3>2. Cardinality({h}) = 1
      BY FS_Singleton
    <3> QED
      BY <2>1, <3>1, <3>2, <1>1 DEF IInv, TrackNew, TypeOK
  <2>2. CASE q # pid[h]
    <3>1. Users(q)' = Users(q)
      BY <2>2 DEF IInv, TrackNew, TypeOK, Users
    <3>2. pidTable'[q] = pidTable[q] /\ pidTable[q] # e
      BY <2>2, <1>1 DEF IInv, TrackNew, Unreferenced, TypeOK
    <3>3. pidTable[q] # NoEntry => refcnt'[pidTable[q]] = refcnt[pidTable[q]]
      BY <3>2 DEF IInv, TrackNew, TypeOK
    <3> QED
      BY <3>1, <3>2, <3>3 DEF IInv, RefcntExact
  <2> QED
    BY <2>1, <2>2
<1> QED
  BY <1>3, <1>4, <1>5, <1>6, <1>7 DEF IInv

LEMMA TrackOldIInv ==
    ASSUME IInv, NEW h \in Handlers, TrackOld(h)
    PROVE  IInv'
<1>1. pid[h] \in Pids /\ pidTable[pid[h]] \in Entries
  BY DEF IInv, TrackOld, TypeOK
<1>2. TypeOK'
  BY <1>1 DEF IInv, TrackOld, TypeOK
<1>3. MutualExclusion' /\ UnlockFindsLocked' /\ EntriesDistinct' /\ LookupCurrent'
  BY DEF IInv, TrackOld, TypeOK, MutualExclusion, UnlockFindsLocked, EntriesDistinct, LookupCurrent
<1>4. RefcntExact'
  <2> SUFFICES ASSUME NEW q \in Pids
               PROVE  IF Users(q)' = {} THEN pidTable'[q] = NoEntry
                      ELSE /\ pidTable'[q] # NoEntry
                           /\ refcnt'[pidTable'[q]] = Cardinality(Users(q)')
    BY DEF RefcntExact
  <2>1. CASE q = pid[h]
    <3>1. Users(q)' = Users(q) \cup {h} /\ h \notin Users(q)
      BY <2>1 DEF IInv, TrackOld, TypeOK, Users
    <3>2. Cardinality(Users(q)') = Cardinality(Users(q)) + 1
      BY <3>1, UsersFinite, FS_AddElement, Zenon
    <3>3. refcnt[pidTable[q]] = Cardinality(Users(q))
      BY <2>1 DEF IInv, TrackOld, RefcntExact
    <3> QED
      BY <2>1, <3>1, <3>2, <3>3, <1>1 DEF IInv, TrackOld, TypeOK
  <2>2. CASE q # pid[h]
    <3>1. Users(q)' = Users(q)
      BY <2>2 DEF IInv, TrackOld, TypeOK, Users
    <3>2. pidTable[q] # pidTable[pid[h]]
      BY <2>2, <1>1 DEF IInv, EntriesDistinct
    <3> QED
      BY <3>1, <3>2, <1>1 DEF IInv, TrackOld, TypeOK, RefcntExact
  <2> QED
    BY <2>1, <2>2
<1> QED
  BY <1>2, <1>3, <1>4 DEF IInv

LEMMA LookupIInv ==
    ASSUME IInv, NEW h \in Handlers, Lookup(h)
    PROVE  IInv'
<1>1. pid[h] \in Pids /\ pidTable[pid[h]] \in Entries
  BY CountedEntry DEF Lookup
<1>2. TypeOK' /\ MutualExclusion' /\ UnlockFindsLocked' /\ EntriesDistinct' /\ LookupCurrent'
  BY <1>1 DEF IInv, Lookup, TypeOK, MutualExclusion, UnlockFindsLocked, EntriesDistinct, LookupCurrent
<1>3. \A q \in Pids : Users(q)' = Users(q)
  BY <1>1 DEF IInv, Lookup, TypeOK, Users
<1> QED
  BY <1>2, <1>3, SameUsers DEF IInv, Lookup

LEMMA AcquireIInv ==
    ASSUME IInv, NEW h \in Handlers, Acquire(h)
    PROVE  IInv'
<1>1. pid[h] \in Pids /\ pd[h] \in Entries /\ pd[h] = pidTable[pid[h]]
  BY DEF IInv, Acquire, TypeOK, LookupCurrent
<1>2. \A g \in Handlers : pc[g] \in Holding => pid[g] # pid[h]
  BY <1>1 DEF IInv, Acquire, UnlockFindsLocked
<1>3. TypeOK' /\ EntriesDistinct' /\ LookupCurrent'
  BY <1>1 DEF IInv, Acquire, TypeOK, EntriesDistinct, LookupCurrent
<1>4. MutualExclusion'
  BY <1>2 DEF IInv, Acquire, TypeOK, MutualExclusion
<1>5. UnlockFindsLocked'
  BY <1>1 DEF IInv, Acquire, TypeOK, UnlockFindsLocked
<1>6. \A q \in Pids : Users(q)' = Users(q)
  BY DEF IInv, Acquire, TypeOK, Users
<1> QED
  BY <1>3, <1>4, <1>5, <1>6, SameUsers DEF IInv, Acquire

LEMMA ProcessIInv ==
    ASSUME IInv, NEW h \in Handlers, Process(h)
    PROVE  IInv'
<1>1. TypeOK' /\ MutualExclusion' /\ UnlockFindsLocked' /\ EntriesDistinct' /\ LookupCurrent'
  BY DEF IInv, Process, TypeOK, MutualExclusion, UnlockFindsLocked, EntriesDistinct, LookupCurrent
<1>2. \A q \in Pids : Users(q)' = Users(q)
  BY DEF IInv, Process, TypeOK, Users
<1> QED
  BY <1>1, <1>2, SameUsers DEF IInv, Process

LEMMA FindIInv ==
    ASSUME IInv, NEW h \in Handlers, Find(h)
    PROVE  IInv'
<1>1. pid[h] \in Pids /\ pidTable[pid[h]] \in Entries
  BY CountedEntry DEF Find
<1>2. TypeOK' /\ MutualExclusion' /\ EntriesDistinct' /\ LookupCurrent'
  BY <1>1 DEF IInv, Find, TypeOK, MutualExclusion, EntriesDistinct, LookupCurrent
<1>3. UnlockFindsLocked'
  BY <1>1 DEF IInv, Find, TypeOK, UnlockFindsLocked
<1>4. \A q \in Pids : Users(q)' = Users(q)
  BY <1>1 DEF IInv, Find, TypeOK, Users
<1> QED
  BY <1>2, <1>3, <1>4, SameUsers DEF IInv, Find

LEMMA ReleaseMutexIInv ==
    ASSUME IInv, NEW h \in Handlers, ReleaseMutex(h)
    PROVE  IInv'
<1>1. pid[h] \in Pids /\ pd[h] \in Entries /\ pd[h] = pidTable[pid[h]]
  BY DEF IInv, ReleaseMutex, TypeOK, UnlockFindsLocked
<1>2. \A g \in Handlers : pc[g] \in Holding /\ g # h => pd[g] # pd[h]
  <2> SUFFICES ASSUME NEW g \in Handlers, pc[g] \in Holding, g # h
               PROVE  pd[g] # pd[h]
    OBVIOUS
  <2>1. pid[g] # pid[h] /\ pid[g] \in Pids
    BY DEF IInv, ReleaseMutex, TypeOK, MutualExclusion
  <2> QED
    BY <2>1, <1>1 DEF IInv, UnlockFindsLocked, EntriesDistinct
<1>3. TypeOK' /\ MutualExclusion' /\ EntriesDistinct' /\ LookupCurrent'
  BY <1>1 DEF IInv, ReleaseMutex, TypeOK, MutualExclusion, EntriesDistinct, LookupCurrent
<1>4. UnlockFindsLocked'
  BY <1>1, <1>2 DEF IInv, ReleaseMutex, TypeOK, UnlockFindsLocked
<1>5. \A q \in Pids : Users(q)' = Users(q)
  BY DEF IInv, ReleaseMutex, TypeOK, Users
<1> QED
  BY <1>3, <1>4, <1>5, SameUsers DEF IInv, ReleaseMutex

LEMMA UntrackIInv ==
    ASSUME IInv, NEW h \in Handlers, Untrack(h)
    PROVE  IInv'
<1>0. PICK p \in Pids : p = pid[h]
  BY CountedEntry DEF Untrack
<1> DEFINE e == pidTable[p]
<1>1. p = pid[h] /\ e \in Entries /\ refcnt[e] \in Nat \ {0}
  BY <1>0, CountedEntry DEF Untrack
<1>2. /\ refcnt' = [refcnt EXCEPT ![e] = @ - 1]
      /\ pidTable' = IF refcnt[e] = 1 THEN [pidTable EXCEPT ![p] = NoEntry]
                     ELSE pidTable
  BY <1>1 DEF Untrack
<1>3. Users(p)' = Users(p) \ {h} /\ h \in Users(p)
  BY <1>1 DEF IInv, Untrack, TypeOK, Users
<1>4. refcnt[e] = Cardinality(Users(p)) /\ IsFiniteSet(Users(p))
  BY <1>1, <1>3, UsersFinite DEF IInv, RefcntExact
<1>5. Cardinality(Users(p)') = refcnt[e] - 1 /\ IsFiniteSet(Users(p)')
  BY <1>3, <1>4, FS_RemoveElement
<1>6. refcnt[e] = 1 <=> Users(p)' = {}
  BY <1>1, <1>5, FS_EmptySet
<1>7. TypeOK'
  <2>1. refcnt' \in [Entries -> Nat]
    BY <1>1, <1>2 DEF IInv, TypeOK
  <2>2. pidTable' \in [Pids -> Entries \cup {NoEntry}]
    BY <1>1, <1>2 DEF IInv, TypeOK
  <2> QED
    BY <2>1, <2>2 DEF IInv, Untrack, TypeOK
<1>8. MutualExclusion'
  BY DEF IInv, Untrack, TypeOK, MutualExclusion
<1>9. UnlockFindsLocked' /\ LookupCurrent'
  <2> SUFFICES ASSUME NEW g \in Handlers, pc'[g] \in Holding \cup {"acquire"}
               PROVE  /\ pd'[g] # NoEntry /\ pd'[g] = pidTable'[pid'[g]]
                      /\ pc'[g] \in Holding => locked'[pd'[g]]
    BY DEF UnlockFindsLocked, LookupCurrent
  <2>1. g # h /\ pc[g] = pc'[g] /\ pid[g] = pid'[g] /\ pd[g] = pd'[g] /\ pid[g] \in Pids
    BY DEF IInv, Untrack, TypeOK
  <2>2. pid[g] = p => refcnt[e] # 1
    BY <2>1, <1>3, <1>6 DEF Users
  <2>3. pidTable'[pid[g]] = pidTable[pid[g]]
    BY <2>1, <2>2, <1>1, <1>2 DEF IInv, TypeOK
  <2> QED
    BY <2>1, <2>3 DEF IInv, Untrack, UnlockFindsLocked, LookupCurrent
<1>10. EntriesDistinct'
  BY <1>1, <1>2 DEF IInv, TypeOK, EntriesDistinct
<1>11. RefcntExact'
  <2> SUFFICES ASSUME NEW q \in Pids
               PROVE  IF Users(q)' = {} THEN pidTable'[q] = NoEntry
                      ELSE /\ pidTable'[q] # NoEntry
                           /\ refcnt'[pidTable'[q]] = Cardinality(Users(q)')
    BY DEF RefcntExact
  <2>1. CASE q = p
    <3>1. CASE refcnt[e] = 1
      BY <2>1, <3>1, <1>1, <1>2, <1>6 DEF IInv, TypeOK
    <3>2. CASE refcnt[e] # 1
      <4>1. pidTable'[q] = e /\ refcnt'[e] = refcnt[e] - 1
        BY <2>1, <3>2, <1>1, <1>2 DEF IInv, TypeOK
      <4> QED
        BY <2>1, <3>2, <4>1, <1>1, <1>5, <1>6
    <3> QED
      BY <3>1, <3>2
  <2>2. CASE q # p
    <3>1. Users(q)' = Users(q)
      BY <2>2, <1>1 DEF IInv, Untrack, TypeOK, Users
    <3>2. pidTable'[q] = pidTable[q] /\ pidTable[q] # e
      BY <2>2, <1>1, <1>2 DEF IInv, TypeOK, EntriesDistinct
    <3>3. pidTable[q] # NoEntry => refcnt'[pidTable[q]] = refcnt[pidTable[q]]
      BY <3>2, <1>1, <1>2 DEF IInv, TypeOK
    <3> QED
      BY <3>1, <3>2, <3>3 DEF IInv, RefcntExact
  <2> QED
    BY <2>1, <2>2
<1> QED
  BY <1>7, <1>8, <1>9, <1>10, <1>11 DEF IInv

(* IInv is inductive.                                                       *)
LEMMA NextIInv == IInv /\ [Next]_vars => IInv'
<1> SUFFICES ASSUME IInv, [Next]_vars PROVE IInv'
  OBVIOUS
<1>1. CASE UNCHANGED vars
  <2>1. TypeOK' /\ MutualExclusion' /\ UnlockFindsLocked' /\ EntriesDistinct' /\ LookupCurrent'
    BY <1>1 DEF IInv, TypeOK, MutualExclusion, UnlockFindsLocked, EntriesDistinct, LookupCurrent
  <2>2. \A q \in Pids : Users(q)' = Users(q)
    BY <1>1 DEF Users
  <2> QED
    BY <1>1, <2>1, <2>2, SameUsers DEF IInv
<1>2. ASSUME NEW h \in Handlers, NEW p \in Pids, Notify(h, p) PROVE IInv'
  BY <1>2, NotifyIInv
<1>3. ASSUME NEW h \in Handlers, Finish(h) PROVE IInv'
  BY <1>3, TrackNewIInv, TrackOldIInv, LookupIInv, AcquireIInv, ProcessIInv,
     FindIInv, ReleaseMutexIInv, UntrackIInv DEF Finish
<1> QED
  BY <1>1, <1>2, <1>3 DEF Next
-----------------------------------------------------------------------------
(* Every reachable state satisfies the inductive invariant.                 *)
THEOREM Invariance == Spec => []IInv
BY InitIInv, NextIInv, PTL DEF Spec

(* For any number of goroutines and thread ids, process() handles one       *)
(* notification of a pid at a time.                                         *)
THEOREM Exclusion == Spec => []MutualExclusion
<1>1. IInv => MutualExclusion
  BY DEF IInv
<1> QED
  BY <1>1, Invariance, PTL

(* The tracker's reference counts are exact and its table holds just the    *)
(* pids in use.                                                             *)
THEOREM ExactCounts == Spec => []RefcntExact
<1>1. IInv => RefcntExact
  BY DEF IInv
<1> QED
  BY <1>1, Invariance, PTL

(* Unlock() always finds the locked mutex that Lock() took.                 *)
THEOREM UnlockSafe == Spec => []UnlockFindsLocked
<1>1. IInv => UnlockFindsLocked
  BY DEF IInv
<1> QED
  BY <1>1, Invariance, PTL

(* Type correctness; the counts never go below zero.                        *)
THEOREM TypeCorrect == Spec => []TypeOK
<1>1. IInv => TypeOK
  BY DEF IInv
<1> QED
  BY <1>1, Invariance, PTL

(* The table of counted mutexes implements one lock per pid.                *)
THEOREM Refinement == Spec => ImplementsPidLock
<1>1. Init => Lock!LockInit
  BY DEF Init, Lock!LockInit
<1>2. IInv /\ [Next]_vars => [Lock!LockNext]_(Lock!lockVars)
  <2> SUFFICES ASSUME IInv, [Next]_vars PROVE [Lock!LockNext]_(Lock!lockVars)
    OBVIOUS
  <2>1. CASE UNCHANGED vars
    BY <2>1 DEF Lock!lockVars
  <2>2. ASSUME NEW h \in Handlers, NEW p \in Pids, Notify(h, p)
        PROVE  Lock!Request(h, p)
    BY <2>2, Zenon DEF IInv, TypeOK, Notify, Lock!Request
  <2>3. ASSUME NEW h \in Handlers, Acquire(h) PROVE Lock!Grant(h)
    <3>1. pid[h] \in Pids /\ pd[h] = pidTable[pid[h]]
      BY <2>3 DEF IInv, TypeOK, Acquire, LookupCurrent
    <3>2. \A g \in Handlers : pc[g] \in Holding => pid[g] # pid[h]
      BY <2>3, <3>1 DEF IInv, Acquire, UnlockFindsLocked
    <3> QED
      BY <2>3, <3>1, <3>2, Zenon DEF IInv, TypeOK, Acquire, Lock!Grant
  <2>4. ASSUME NEW h \in Handlers, ReleaseMutex(h) PROVE Lock!Release(h)
    BY <2>4, Zenon DEF IInv, TypeOK, ReleaseMutex, Lock!Release
  <2>5. ASSUME NEW h \in Handlers,
               \/ \E e \in Entries : TrackNew(h, e)
               \/ TrackOld(h) \/ Lookup(h) \/ Process(h) \/ Find(h) \/ Untrack(h)
        PROVE  UNCHANGED Lock!lockVars
    <3>1. /\ pc[h] \in {"lookup", "find"} => pidTable[pid[h]] # NoEntry
          /\ pid[h] = pid'[h] \/ Untrack(h)
      BY <2>5, CountedEntry DEF IInv, TypeOK, TrackNew, TrackOld, Lookup, Process, Find
    <3> QED
      BY <2>5, <3>1 DEF IInv, TypeOK, TrackNew, TrackOld, Lookup, Process, Find, Untrack,
                        Lock!lockVars
  <2> QED
    BY <2>1, <2>2, <2>3, <2>4, <2>5 DEF Next, Finish, Lock!LockNext
<1> QED
  BY <1>1, <1>2, Invariance, PTL DEF Spec, ImplementsPidLock, Lock!LockSpec
=============================================================================
