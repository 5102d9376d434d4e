------------------------------ MODULE PidTracker ------------------------------
(***************************************************************************)
(* seccomp/pidTracker.go: the reference-counted table of per-pid mutexes    *)
(* that serializes the notifications of a thread, and its only user,        *)
(* syscallTracer.process (seccomp/tracer.go), one goroutine per             *)
(* notification.  A thread whose syscall is interrupted by a signal raises  *)
(* its next notification while the previous one is still in process, so     *)
(* several goroutines may carry the same pid.                               *)
(*                                                                          *)
(* Every access to the table is one critical section of                     *)
(* seccompNotifPidTracker.mu and is one action; the per-pid mutex is a      *)
(* sync.Mutex, which has no owner.  pidData objects are the members of      *)
(* Entries; the allocator may reuse one nothing points to.                  *)
(***************************************************************************)
EXTENDS Integers, FiniteSets

CONSTANTS Handlers,   \* goroutines running process()
          Pids,       \* thread ids
          Entries,    \* pidData objects
          NoPid, NoEntry

ASSUME PidTrackerAssumption ==
    /\ IsFiniteSet(Handlers)
    /\ NoPid \notin Pids
    /\ NoEntry \notin Entries

VARIABLES pidTable,   \* seccompNotifPidTracker.pidTable
          refcnt,     \* pidData.refcnt
          locked,     \* pidData.mu
          pc, pid,    \* per handler: where it is, req.Pid
          pd          \* per handler: the local pd of Lock() / Unlock()

vars == <<pidTable, refcnt, locked, pc, pid, pd>>

Steps == {"idle", "track", "lookup", "acquire", "process", "find", "release",
          "untrack"}
Tracked == {"lookup", "acquire", "process", "find", "release", "untrack"}
Holding == {"process", "find", "release"}

Goto(h, step) == pc' = [pc EXCEPT ![h] = step]

(* The handlers counted in the entry of p: past track(), not yet past       *)
(* untrack().                                                               *)
Users(p) == {h \in Handlers : pid[h] = p /\ pc[h] \in Tracked}
-----------------------------------------------------------------------------
Init == /\ pidTable = [p \in Pids |-> NoEntry]
        /\ refcnt = [e \in Entries |-> 0]
        /\ locked = [e \in Entries |-> FALSE]
        /\ pc = [h \in Handlers |-> "idle"]
        /\ pid = [h \in Handlers |-> NoPid]
        /\ pd = [h \in Handlers |-> NoEntry]

(* connHandler: "go t.process(req, fd, cntrID)".                            *)
Notify(h, p) == /\ pc[h] = "idle"
                /\ Goto(h, "track")
                /\ pid' = [pid EXCEPT ![h] = p]
                /\ UNCHANGED <<pidTable, refcnt, locked, pd>>

Unreferenced(e) == /\ \A p \in Pids : pidTable[p] # e
                   /\ \A g \in Handlers : pd[g] # e

(* Slip: the new entry starts without its first reference.                  *)
TrackNewUncounted(h, e) == /\ pc[h] = "track"
                           /\ pidTable[pid[h]] = NoEntry
                           /\ Unreferenced(e)
                           /\ pidTable' = [pidTable EXCEPT ![pid[h]] = e]
                           /\ refcnt' = [refcnt EXCEPT ![e] = 0]
                           /\ locked' = [locked EXCEPT ![e] = FALSE]
                           /\ Goto(h, "lookup")
                           /\ UNCHANGED <<pid, pd>>

(* track(): a pid without an entry gets a new one with count 1.             *)
TrackNew(h, e) == /\ pc[h] = "track"
                  /\ pidTable[pid[h]] = NoEntry
                  /\ Unreferenced(e)
                  /\ pidTable' = [pidTable EXCEPT ![pid[h]] = e]
                  /\ refcnt' = [refcnt EXCEPT ![e] = 1]
                  /\ locked' = [locked EXCEPT ![e] = FALSE]
                  /\ Goto(h, "lookup")
                  /\ UNCHANGED <<pid, pd>>

(* Slip: track() takes a present entry without increasing its count.        *)
TrackOldUncounted(h) == /\ pc[h] = "track"
                        /\ pidTable[pid[h]] # NoEntry
                        /\ Goto(h, "lookup")
                        /\ UNCHANGED <<pidTable, refcnt, locked, pid, pd>>

(* track(): a pid with an entry has its count increased.                    *)
TrackOld(h) == /\ pc[h] = "track"
               /\ pidTable[pid[h]] # NoEntry
               /\ refcnt' = [refcnt EXCEPT ![pidTable[pid[h]]] = @ + 1]
               /\ Goto(h, "lookup")
               /\ UNCHANGED <<pidTable, locked, pid, pd>>

(* Lock(): the entry is read again under RLock; without one Lock() returns  *)
(* and the notification is processed without the mutex.                     *)
Lookup(h) == /\ pc[h] = "lookup"
             /\ pd' = [pd EXCEPT ![h] = pidTable[pid[h]]]
             /\ Goto(h, IF pidTable[pid[h]] = NoEntry THEN "process" ELSE "acquire")
             /\ UNCHANGED <<pidTable, refcnt, locked, pid>>

(* Slip: the mutex is tried, not waited for.                                *)
AcquireTry(h) == /\ pc[h] = "acquire"
                 /\ locked' = [locked EXCEPT ![pd[h]] = TRUE]
                 /\ Goto(h, "process")
                 /\ UNCHANGED <<pidTable, refcnt, pid, pd>>

(* Lock(): pd.mu.Lock().                                                    *)
Acquire(h) == /\ pc[h] = "acquire"
              /\ ~locked[pd[h]]
              /\ locked' = [locked EXCEPT ![pd[h]] = TRUE]
              /\ Goto(h, "process")
              /\ UNCHANGED <<pidTable, refcnt, pid, pd>>

(* processSyscall() and NotifRespond(); every return of process() runs the  *)
(* deferred Unlock().                                                       *)
Process(h) == /\ pc[h] = "process"
              /\ Goto(h, "find")
              /\ UNCHANGED <<pidTable, refcnt, locked, pid, pd>>

(* Unlock(): the lookup under RLock; without an entry Unlock() returns.     *)
Find(h) == /\ pc[h] = "find"
           /\ pd' = [pd EXCEPT ![h] = pidTable[pid[h]]]
           /\ Goto(h, IF pidTable[pid[h]] = NoEntry THEN "idle" ELSE "release")
           /\ pid' = IF pidTable[pid[h]] = NoEntry
                     THEN [pid EXCEPT ![h] = NoPid] ELSE pid
           /\ UNCHANGED <<pidTable, refcnt, locked>>

(* Slip: Unlock() only drops the reference.                                 *)
ReleaseNothing(h) == /\ pc[h] = "release"
                     /\ Goto(h, "untrack")
                     /\ UNCHANGED <<pidTable, refcnt, locked, pid, pd>>

(* Unlock(): pd.mu.Unlock().                                                *)
ReleaseMutex(h) == /\ pc[h] = "release"
                   /\ locked' = [locked EXCEPT ![pd[h]] = FALSE]
                   /\ Goto(h, "untrack")
                   /\ UNCHANGED <<pidTable, refcnt, pid, pd>>

(* Slip: untrack() deletes the entry whatever its count.                    *)
UntrackDeletes(h) ==
    /\ pc[h] = "untrack"
    /\ pidTable' = [pidTable EXCEPT ![pid[h]] = NoEntry]
    /\ Goto(h, "idle")
    /\ pid' = [pid EXCEPT ![h] = NoPid]
    /\ pd' = [pd EXCEPT ![h] = NoEntry]
    /\ UNCHANGED <<refcnt, locked>>

(* untrack(): the count goes down; the last user deletes the entry.         *)
Untrack(h) ==
    LET e == pidTable[pid[h]] IN
    /\ pc[h] = "untrack"
    /\ refcnt' = IF e = NoEntry THEN refcnt ELSE [refcnt EXCEPT ![e] = @ - 1]
    /\ pidTable' = IF e # NoEntry /\ refcnt[e] - 1 <= 0
                   THEN [pidTable EXCEPT ![pid[h]] = NoEntry] ELSE pidTable
    /\ Goto(h, "idle")
    /\ pid' = [pid EXCEPT ![h] = NoPid]
    /\ pd' = [pd EXCEPT ![h] = NoEntry]
    /\ UNCHANGED locked

Finish(h) == \/ \E e \in Entries : TrackNew(h, e)
             \/ TrackOld(h) \/ Lookup(h) \/ Acquire(h) \/ Process(h)
             \/ Find(h) \/ ReleaseMutex(h) \/ Untrack(h)

Next == \E h \in Handlers : (\E p \in Pids : Notify(h, p)) \/ Finish(h)

Spec == Init /\ [][Next]_vars

(* The goroutine scheduler runs every ready goroutine, handling a syscall   *)
(* returns, and sync.Mutex hands the lock to a waiter that starves: strong  *)
(* fairness on acquiring it, weak on every other step.                      *)
Fairness == \A h \in Handlers : WF_vars(Finish(h)) /\ SF_vars(Acquire(h))

FairSpec == Spec /\ Fairness
-----------------------------------------------------------------------------
(* Every variable stays in its domain.                                      *)
TypeOK == /\ pidTable \in [Pids -> Entries \cup {NoEntry}]
          /\ refcnt \in [Entries -> Nat]
          /\ locked \in [Entries -> BOOLEAN]
          /\ pc \in [Handlers -> Steps]
          /\ pid \in [Handlers -> Pids \cup {NoPid}]
          /\ pd \in [Handlers -> Entries \cup {NoEntry}]
          /\ \A h \in Handlers : pc[h] # "idle" => pid[h] \in Pids

(* tracer.go: "for a given pid, we only process one syscall at a time": no  *)
(* two goroutines are between Lock(pid) and the release of the same pid,    *)
(* although an entry is deleted and created again between them.             *)
MutualExclusion ==
    \A g, h \in Handlers : pc[g] \in Holding /\ pc[h] \in Holding /\ pid[g] = pid[h]
                              => g = h

(* The count in a pid's entry is exactly the number of goroutines between   *)
(* track() and untrack(); an entry exists just as long as there is one, so  *)
(* the table neither leaks pids nor loses an entry that is in use.          *)
RefcntExact ==
    \A p \in Pids : IF Users(p) = {} THEN pidTable[p] = NoEntry
                    ELSE /\ pidTable[p] # NoEntry
                         /\ refcnt[pidTable[p]] = Cardinality(Users(p))

(* Unlock() releases the very mutex Lock() took and finds it locked: the Go *)
(* runtime aborts the process on the unlock of an unlocked mutex.           *)
UnlockFindsLocked ==
    \A h \in Handlers : pc[h] \in Holding =>
        /\ pd[h] # NoEntry
        /\ pd[h] = pidTable[pid[h]]
        /\ locked[pd[h]]

(* The tracker implements one plain lock per pid: a handler waits from its  *)
(* notification on and holds the pid until it unlocks the mutex.            *)
Waiting == {"track", "lookup", "acquire"}
Lock == INSTANCE PidLock WITH
    waiting <- [h \in Handlers |-> IF pc[h] \in Waiting THEN pid[h] ELSE NoPid],
    holding <- [h \in Handlers |-> IF pc[h] \in Holding THEN pid[h] ELSE NoPid]

ImplementsPidLock == Lock!LockSpec

(* No notification is left unprocessed: process() always gets its lock and  *)
(* returns, whatever the other goroutines of the same pid do.               *)
EveryNotificationEnds == \A h \in Handlers : pc[h] = "track" ~> pc[h] = "idle"
=============================================================================
