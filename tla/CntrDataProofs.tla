---------------------------- MODULE CntrDataProofs ----------------------------
(***************************************************************************)
(* Proofs, for any number of processes, containers, resources and values,   *)
(* that locks are held where CntrData says they are, that the kernel's      *)
(* value of a limit covers what every container was told and is not         *)
(* lowered, that what a container keeps changes only by a write, and that   *)
(* the cache of a pass-through file with one writer is the kernel's value.  *)
(***************************************************************************)
EXTENDS CntrData, TLAPS

(* A read of a pass-through file by a process in namespaces of its own      *)
(* takes no lock.                                                           *)
Bypass(u) == u \in Inner /\ ~IsEmulated(res[u])

(* What a request in progress is about.                                     *)
RequestOK(u) ==
    /\ pc[u] # "idle" => res[u] \in Resources /\ op[u] \in {"read", "write"}
    /\ pc[u] # "idle" /\ ~Reads(u) => val[u] \in Values
    /\ pc[u] \in {"queue", "read", "write"} => IsEmulated(res[u])
    /\ pc[u] \in {"enter", "keep"} /\ ~Reads(u) => IsEmulated(res[u])
    /\ pc[u] \in {"read", "write", "push", "store"} => ~Reads(u)
    /\ pc[u] \in {"push", "store"} => ~IsEmulated(res[u])
    /\ pc[u] = "fetch" => Reads(u)
    /\ pc[u] \in {"enter", "keep"} => ~Bypass(u)
    /\ pc[u] = "keep" /\ Reads(u) => got[u] \in Values
    /\ pc[u] \in {"read", "write"} => i[u] < retries
    /\ pc[u] \in {"idle", "enter", "queue"} => i[u] = 0 /\ size[u] = BufSize

(* Who is past a Lock() and not past the Unlock() holds the lock.           *)
Locked(u) ==
    /\ pc[u] \in {"queue", "fetch", "read", "write", "keep"} /\ ~Bypass(u)
           => lock[CntrOf[u]] = u
    /\ pc[u] = "fetch" /\ Bypass(u) => lock[CntrOf[u]] # u
    /\ pc[u] \in {"read", "write"} => mutex[res[u]] = u

LockInv == TypeOK /\ HoldersRun /\ \A u \in Users : RequestOK(u) /\ Locked(u)

USE DEF Goto, Steps, Ask, request, Reads, Bypass

(* The buffer holds any value.                                              *)
LEMMA BufSizeOK == BufSize \in Nat /\ BufSize > 2 /\ retries \in Nat /\ retries > 0
BY DEF BufSize, retries

(* The kernel's files of users and resources are files.                     *)
LEMMA FileOK == \A u \in Users, r \in Resources : File(u, r) \in Files
BY DEF Files

(* A file belongs to the resource it is named after.                        *)
LEMMA FileRes == \A f \in Files : f[1] \in Resources
<1> SUFFICES ASSUME NEW f \in Files PROVE f[1] \in Resources
  OBVIOUS
<1>1. PICK u \in Users, r \in Resources : f = File(u, r)
  BY DEF Files
<1>2. File(u, r)[1] = r
  BY DEF File
<1> QED
  BY <1>1, <1>2

(* Nothing is held before the first request.                                *)
LEMMA InitLock == Init => LockInv
<1> SUFFICES ASSUME Init PROVE LockInv
  OBVIOUS
<1>1. fs \in [Files -> Values]
  BY FileRes, CntrDataAssumption DEF Init
<1>2. TypeOK
  BY <1>1, BufSizeOK DEF Init, TypeOK
<1>3. HoldersRun
  BY DEF Init, HoldersRun
<1>4. ASSUME NEW u \in Users PROVE RequestOK(u) /\ Locked(u)
  BY BufSizeOK DEF Init, RequestOK, Locked
<1> QED
  BY <1>2, <1>3, <1>4 DEF LockInv

(* What the assignments of the actions do to the types.                     *)
LEMMA SetDataType ==
    ASSUME TypeOK, NEW u \in Users, res[u] \in Resources,
           NEW v \in Values, SetData(u, v)
    PROVE  (data \in [Cntrs -> [Resources -> Values \cup {None}]])'
BY CntrDataAssumption DEF TypeOK, SetData

LEMMA WriteAtType ==
    ASSUME TypeOK, NEW u \in Users, res[u] \in Resources, val[u] \in Values,
           WriteAt(u)
    PROVE  (fs \in [Files -> Values])'
BY FileOK DEF TypeOK, WriteAt

LEMMA UnlockType ==
    ASSUME TypeOK, NEW u \in Users, Unlock(u)
    PROVE  (lock \in [Cntrs -> Users \cup {None}])'
BY DEF TypeOK, Unlock

LEMMA UnlockMutexType ==
    ASSUME TypeOK, NEW u \in Users, UnlockMutex(u)
    PROVE  (mutex \in [Resources -> Users \cup {None}])'
BY DEF TypeOK, UnlockMutex

LEMMA DoneType ==
    ASSUME TypeOK, NEW u \in Users, Done(u)
    PROVE  /\ (pc \in [Users -> Steps])'
           /\ (op \in [Users -> {"none", "read", "write"}])'
           /\ (res \in [Users -> Resources \cup {None}])'
           /\ (val \in [Users -> Values \cup {None}])'
           /\ (got \in [Users -> Values \cup {None}])'
           /\ (i \in [Users -> 0..retries])'
           /\ (size \in [Users -> 2..BufSize])'
BY BufSizeOK DEF TypeOK, Done

(* What a request that ends leaves.                                         *)
LEMMA DoneRequest ==
    ASSUME LockInv, NEW u \in Users, Done(u), NEW w \in Users
    PROVE  RequestOK(w)'
BY CntrDataAssumption DEF LockInv, TypeOK, Done, RequestOK

(* Read leaves the locks with the requests that hold them.                  *)
LEMMA ReadLock ==
    ASSUME LockInv, NEW u \in Users, NEW r \in Resources, Read(u, r)
    PROVE  LockInv'
<1> USE CntrDataAssumption, BufSizeOK DEF LockInv, Read
<1>1. TypeOK'
  BY DoneType DEF TypeOK
<1>2. HoldersRun'
  BY DEF TypeOK, HoldersRun, RequestOK, Locked, Done
<1>3. ASSUME NEW w \in Users PROVE RequestOK(w)'
  BY DEF TypeOK, RequestOK, Done
<1>4. ASSUME NEW w \in Users PROVE Locked(w)'
  <2>1. lock[CntrOf[u]] # u
    <3>1. pc[u] = "idle" /\ CntrOf[u] \in Cntrs /\ u # None
      OBVIOUS
    <3> QED
      BY <3>1 DEF HoldersRun
  <2>2. CASE w = u
    BY <2>1, <2>2 DEF TypeOK, RequestOK, Locked
  <2>3. CASE w # u
    BY <2>3 DEF TypeOK, RequestOK, Locked
  <2> QED
    BY <2>2, <2>3
<1> QED
  BY <1>1, <1>2, <1>3, <1>4

(* Write leaves the locks with the requests that hold them.                 *)
LEMMA WriteLock ==
    ASSUME LockInv, NEW u \in Users, NEW r \in Resources, NEW v \in Values, Write(u, r, v)
    PROVE  LockInv'
<1> USE CntrDataAssumption, BufSizeOK DEF LockInv, Write
<1>1. TypeOK'
  BY DoneType DEF TypeOK
<1>2. HoldersRun'
  BY DEF TypeOK, HoldersRun, RequestOK, Locked, Done
<1>3. ASSUME NEW w \in Users PROVE RequestOK(w)'
  BY DEF TypeOK, RequestOK, Done
<1>4. ASSUME NEW w \in Users PROVE Locked(w)'
  BY DEF TypeOK, HoldersRun, RequestOK, Locked, Done
<1> QED
  BY <1>1, <1>2, <1>3, <1>4

(* ReadCached leaves the locks with the requests that hold them.            *)
LEMMA ReadCachedLock ==
    ASSUME LockInv, NEW u \in Users, ReadCached(u)
    PROVE  LockInv'
<1> USE CntrDataAssumption, BufSizeOK DEF LockInv, ReadCached
<1>1. TypeOK'
  BY DoneType DEF TypeOK
<1>2. HoldersRun'
  BY DEF TypeOK, HoldersRun, RequestOK, Locked, Done
<1>3. ASSUME NEW w \in Users PROVE RequestOK(w)'
  BY DEF TypeOK, RequestOK, Done
<1>4. ASSUME NEW w \in Users PROVE Locked(w)'
  BY DEF TypeOK, HoldersRun, RequestOK, Locked, Done
<1> QED
  BY <1>1, <1>2, <1>3, <1>4

(* ReadMiss leaves the locks with the requests that hold them.              *)
LEMMA ReadMissLock ==
    ASSUME LockInv, NEW u \in Users, ReadMiss(u)
    PROVE  LockInv'
<1> USE CntrDataAssumption DEF LockInv
<1>1. /\ pc[u] = "enter" /\ lock[CntrOf[u]] = None
      /\ lock' = [lock EXCEPT ![CntrOf[u]] = u]
      /\ UNCHANGED <<fs, data, mutex, op, res, val, got, i, size>>
      /\ \E s \in {"queue", "fetch"} : pc' = [pc EXCEPT ![u] = s]
  BY Zenon DEF ReadMiss, Lock
<1>2. TypeOK'
  BY <1>1 DEF TypeOK
<1>3. HoldersRun'
  BY <1>1 DEF TypeOK, HoldersRun, RequestOK, Locked
<1>4. ASSUME NEW w \in Users PROVE RequestOK(w)'
  BY DEF TypeOK, RequestOK, ReadMiss
<1>5. ASSUME NEW w \in Users PROVE Locked(w)'
  <2>1. CASE w = u
    BY <1>1, <2>1 DEF TypeOK, RequestOK, Locked
  <2>2. CASE w # u
    BY <1>1, <2>2 DEF TypeOK, RequestOK, Locked
  <2> QED
    BY <2>1, <2>2
<1> QED
  BY <1>2, <1>3, <1>4, <1>5

(* WritePrivate leaves the locks with the requests that hold them.          *)
LEMMA WritePrivateLock ==
    ASSUME LockInv, NEW u \in Users, WritePrivate(u)
    PROVE  LockInv'
<1> USE CntrDataAssumption DEF LockInv
<1>1. TypeOK'
  <2>1. res[u] \in Resources /\ val[u] \in Values
    BY DEF WritePrivate, RequestOK
  <2> QED
    BY <2>1, SetDataType, DoneType, Zenon DEF TypeOK, WritePrivate
<1>2. HoldersRun'
  BY DEF TypeOK, HoldersRun, RequestOK, Locked, WritePrivate, Done
<1>3. ASSUME NEW w \in Users PROVE RequestOK(w)'
  BY <1>3, DoneRequest DEF WritePrivate
<1>4. ASSUME NEW w \in Users PROVE Locked(w)'
  BY DEF TypeOK, HoldersRun, RequestOK, Locked, WritePrivate, Done
<1> QED
  BY <1>1, <1>2, <1>3, <1>4

(* WriteLocks leaves the locks with the requests that hold them.            *)
LEMMA WriteLocksLock ==
    ASSUME LockInv, NEW u \in Users, WriteLocks(u)
    PROVE  LockInv'
<1> USE CntrDataAssumption DEF LockInv
<1>1. /\ pc[u] = "enter" /\ lock[CntrOf[u]] = None
      /\ lock' = [lock EXCEPT ![CntrOf[u]] = u]
      /\ UNCHANGED <<fs, data, mutex, op, res, val, got, i, size>>
      /\ \E s \in {"queue"} : pc' = [pc EXCEPT ![u] = s]
  BY DEF WriteLocks, Lock
<1>2. TypeOK'
  BY <1>1 DEF TypeOK
<1>3. HoldersRun'
  BY <1>1 DEF TypeOK, HoldersRun, RequestOK, Locked
<1>4. ASSUME NEW w \in Users PROVE RequestOK(w)'
  BY DEF TypeOK, RequestOK, WriteLocks
<1>5. ASSUME NEW w \in Users PROVE Locked(w)'
  <2>1. CASE w = u
    BY <1>1, <2>1 DEF TypeOK, RequestOK, Locked
  <2>2. CASE w # u
    BY <1>1, <2>2 DEF TypeOK, RequestOK, Locked
  <2> QED
    BY <2>1, <2>2
<1> QED
  BY <1>2, <1>3, <1>4, <1>5

(* Acquire leaves the locks with the requests that hold them.               *)
LEMMA AcquireLock ==
    ASSUME LockInv, NEW u \in Users, Acquire(u)
    PROVE  LockInv'
<1> USE CntrDataAssumption, BufSizeOK DEF LockInv, Acquire, LockMutex
<1>1. TypeOK'
  BY DoneType, Zenon DEF TypeOK
<1>2. HoldersRun'
  BY DEF TypeOK, HoldersRun, RequestOK, Locked, Done
<1>3. ASSUME NEW w \in Users PROVE RequestOK(w)'
  BY DEF TypeOK, RequestOK, Done
<1>4. ASSUME NEW w \in Users PROVE Locked(w)'
  BY DEF TypeOK, HoldersRun, RequestOK, Locked, Done
<1> QED
  BY <1>1, <1>2, <1>3, <1>4

(* Fetch leaves the locks with the requests that hold them.                 *)
LEMMA FetchLock ==
    ASSUME LockInv, NEW u \in Users, Fetch(u)
    PROVE  LockInv'
<1> USE CntrDataAssumption DEF LockInv
<1>1. /\ pc[u] = "fetch" /\ UnlockMutex(u) /\ UNCHANGED <<fs, data, lock>>
      /\ res[u] \in Resources
  BY DEF Fetch, RequestOK
<1>2. CASE Bypass(u)
  <2>1. Done(u)
    BY <1>2 DEF Fetch
  <2>2. TypeOK'
    BY <1>1, <2>1, DoneType, UnlockMutexType DEF TypeOK
  <2>3. HoldersRun'
    BY <1>1, <1>2, <2>1 DEF TypeOK, HoldersRun, RequestOK, Locked, Done, UnlockMutex
  <2>4. ASSUME NEW w \in Users PROVE RequestOK(w)'
    BY <2>1, DoneRequest
  <2>5. ASSUME NEW w \in Users PROVE Locked(w)'
    BY <1>1, <2>1 DEF TypeOK, Locked, RequestOK, Done, UnlockMutex
  <2> QED
    BY <2>2, <2>3, <2>4, <2>5
<1>3. CASE ~Bypass(u)
  <2>1. /\ pc' = [pc EXCEPT ![u] = "keep"]
        /\ got' = [got EXCEPT ![u] = Kernel(u)]
        /\ UNCHANGED <<op, res, val, i, size>>
    BY <1>3 DEF Fetch
  <2>2. Kernel(u) \in Values
    BY <1>1, FileOK DEF TypeOK, Kernel
  <2>3. TypeOK'
    BY <1>1, <2>1, <2>2, UnlockMutexType DEF TypeOK
  <2>4. HoldersRun'
    BY <1>1, <1>3, <2>1 DEF TypeOK, HoldersRun, RequestOK, Locked, UnlockMutex
  <2>5. ASSUME NEW w \in Users PROVE RequestOK(w)'
    BY <1>1, <1>3, <2>1, <2>2 DEF TypeOK, RequestOK
  <2>6. ASSUME NEW w \in Users PROVE Locked(w)'
    BY <1>1, <2>1 DEF TypeOK, Locked, RequestOK, UnlockMutex
  <2> QED
    BY <2>3, <2>4, <2>5, <2>6
<1> QED
  BY <1>2, <1>3

(* Keep leaves the locks with the requests that hold them.                  *)
LEMMA KeepLock ==
    ASSUME LockInv, NEW u \in Users, Keep(u)
    PROVE  LockInv'
<1> USE CntrDataAssumption DEF LockInv
<1>1. /\ pc[u] = "keep" /\ Unlock(u) /\ Done(u) /\ UNCHANGED <<fs, mutex>>
      /\ lock[CntrOf[u]] = u
  BY DEF Keep, RequestOK, Locked
<1>2. TypeOK'
  <2>1. /\ res[u] \in Resources
        /\ (IF Reads(u) THEN got[u] ELSE val[u]) \in Values
    BY <1>1 DEF RequestOK
  <2> QED
    BY <1>1, <2>1, SetDataType, UnlockType, DoneType, Zenon DEF TypeOK, Keep
<1>3. HoldersRun'
  BY <1>1 DEF TypeOK, HoldersRun, Done, Unlock
<1>4. ASSUME NEW w \in Users PROVE RequestOK(w)'
  BY <1>1, DoneRequest
<1>5. ASSUME NEW w \in Users PROVE Locked(w)'
  BY <1>1 DEF TypeOK, Locked, Done, Unlock
<1> QED
  BY <1>2, <1>3, <1>4, <1>5

(* ReadAt() without its arithmetic.                                         *)
LEMMA ReadAtSplit ==
    ASSUME LockInv, NEW u \in Users, ReadAt(u)
    PROVE  /\ pc[u] = "read" /\ UNCHANGED <<fs, data, lock, op, res, val, got, i>>
           /\ \E n \in 2..BufSize : size' = [size EXCEPT ![u] = n]
           /\ \/ pc' = [pc EXCEPT ![u] = "write"] /\ UNCHANGED mutex
              \/ pc' = [pc EXCEPT ![u] = "keep"] /\ UnlockMutex(u)
<1>1. Kernel(u) \in Values
  BY FileOK DEF LockInv, TypeOK, RequestOK, ReadAt, Kernel
<1>2. Bytes(Kernel(u)) \in 2..BufSize
  BY <1>1, BytesAssumption
<1>3. size[u] \in 2..BufSize
  BY DEF LockInv, TypeOK
<1> QED
  BY <1>2, <1>3, Zenon DEF ReadAt

(* ReadAt leaves the locks with the requests that hold them.                *)
LEMMA ReadAtLock ==
    ASSUME LockInv, NEW u \in Users, ReadAt(u)
    PROVE  LockInv'
<1> USE CntrDataAssumption DEF LockInv
<1>1. /\ pc[u] = "read" /\ UNCHANGED <<data, lock, op, res, val, got>>
      /\ \/ pc' = [pc EXCEPT ![u] = "write"] /\ UNCHANGED mutex
         \/ pc' = [pc EXCEPT ![u] = "keep"] /\ UnlockMutex(u)
  BY ReadAtSplit
<1>2. TypeOK'
  <2>1. (mutex \in [Resources -> Users \cup {None}])'
    BY <1>1, UnlockMutexType DEF TypeOK
  <2>2. (pc \in [Users -> Steps])'
    BY <1>1 DEF TypeOK
  <2>3. (size \in [Users -> 2..BufSize])'
    BY ReadAtSplit DEF TypeOK
  <2> QED
    BY <1>1, <2>1, <2>2, <2>3, ReadAtSplit DEF TypeOK
<1>3. HoldersRun'
  <2>1. CASE pc' = [pc EXCEPT ![u] = "write"] /\ UNCHANGED mutex
    BY <1>1, <2>1 DEF TypeOK, HoldersRun, RequestOK, Locked
  <2>2. CASE pc' = [pc EXCEPT ![u] = "keep"] /\ UnlockMutex(u)
    BY <1>1, <2>2 DEF TypeOK, HoldersRun, RequestOK, Locked, UnlockMutex
  <2> QED
    BY <1>1, <2>1, <2>2
<1>4. ASSUME NEW w \in Users PROVE RequestOK(w)'
  <2>1. (i[w]' = i[w] /\ size[w]' = size[w]) \/ w = u
    BY ReadAtSplit DEF TypeOK
  <2>2. pc[u]' \in {"read", "write"} => i[u]' < retries
    BY ReadAtSplit DEF TypeOK, RequestOK
  <2>3. CASE w = u
    BY <1>1, <2>2, <2>3 DEF TypeOK, RequestOK
  <2>4. CASE w # u
    BY <1>1, <2>1, <2>4 DEF TypeOK, RequestOK
  <2> QED
    BY <2>3, <2>4
<1>5. ASSUME NEW w \in Users PROVE Locked(w)'
  BY <1>1 DEF TypeOK, Locked, RequestOK, UnlockMutex
<1> QED
  BY <1>2, <1>3, <1>4, <1>5

(* WriteRound leaves the locks with the requests that hold them.            *)
LEMMA WriteRoundLock ==
    ASSUME LockInv, NEW u \in Users, WriteRound(u)
    PROVE  LockInv'
<1> USE CntrDataAssumption DEF LockInv
<1>1. /\ pc[u] = "write" /\ UNCHANGED <<data, lock, op, res, val, got>>
      /\ \/ pc' = [pc EXCEPT ![u] = "read"] /\ UNCHANGED mutex
         \/ pc' = [pc EXCEPT ![u] = "keep"] /\ UnlockMutex(u)
  BY DEF WriteRound
<1>2. TypeOK'
  <2>1. (mutex \in [Resources -> Users \cup {None}])'
    BY <1>1, UnlockMutexType DEF TypeOK
  <2>2. (fs \in [Files -> Values])'
    BY <1>1, WriteAtType DEF WriteRound, RequestOK
  <2>3. (pc \in [Users -> Steps])'
    BY <1>1 DEF TypeOK
  <2>4. (i \in [Users -> 0..retries])'
    <3>1. i[u] + 1 \in 0..retries
      BY <1>1, BufSizeOK DEF TypeOK, RequestOK
    <3> QED
      BY <3>1 DEF TypeOK, WriteRound
  <2> QED
    BY <1>1, <2>1, <2>2, <2>3, <2>4 DEF TypeOK, WriteRound
<1>3. HoldersRun'
  <2>1. CASE pc' = [pc EXCEPT ![u] = "read"] /\ UNCHANGED mutex
    BY <1>1, <2>1 DEF TypeOK, HoldersRun, RequestOK, Locked
  <2>2. CASE pc' = [pc EXCEPT ![u] = "keep"] /\ UnlockMutex(u)
    BY <1>1, <2>2 DEF TypeOK, HoldersRun, RequestOK, Locked, UnlockMutex
  <2> QED
    BY <1>1, <2>1, <2>2
<1>4. ASSUME NEW w \in Users PROVE RequestOK(w)'
  <2>1. (i[w]' = i[w] /\ size[w]' = size[w]) \/ w = u
    BY DEF TypeOK, WriteRound
  <2>2. pc[u]' \in {"read", "write"} => i[u]' < retries
    BY DEF TypeOK, WriteRound
  <2>3. CASE w = u
    BY <1>1, <2>2, <2>3 DEF TypeOK, RequestOK
  <2>4. CASE w # u
    BY <1>1, <2>1, <2>4 DEF TypeOK, RequestOK
  <2> QED
    BY <2>3, <2>4
<1>5. ASSUME NEW w \in Users PROVE Locked(w)'
  BY <1>1 DEF TypeOK, Locked, RequestOK, UnlockMutex
<1> QED
  BY <1>2, <1>3, <1>4, <1>5

(* Push leaves the locks with the requests that hold them.                  *)
LEMMA PushLock ==
    ASSUME LockInv, NEW u \in Users, Push(u)
    PROVE  LockInv'
<1> USE CntrDataAssumption DEF LockInv
<1>1. /\ pc[u] = "push" /\ WriteAt(u) /\ UNCHANGED <<data, lock, mutex>>
      /\ \/ Done(u)
         \/ pc' = [pc EXCEPT ![u] = "store"] /\ UNCHANGED <<op, res, val, got, i, size>>
  BY DEF Push
<1>2. (fs \in [Files -> Values])'
  BY <1>1, WriteAtType DEF RequestOK
<1>3. CASE Done(u)
  <2>1. TypeOK'
    BY <1>1, <1>2, <1>3, DoneType DEF TypeOK
  <2>2. HoldersRun'
    BY <1>1, <1>3 DEF TypeOK, HoldersRun, Done
  <2>3. ASSUME NEW w \in Users PROVE RequestOK(w)'
    BY <1>3, DoneRequest
  <2>4. ASSUME NEW w \in Users PROVE Locked(w)'
    BY <1>1, <1>3 DEF TypeOK, Locked, Done
  <2> QED
    BY <2>1, <2>2, <2>3, <2>4
<1>4. CASE pc' = [pc EXCEPT ![u] = "store"] /\ UNCHANGED <<op, res, val, got, i, size>>
  <2>1. TypeOK'
    BY <1>1, <1>2, <1>4 DEF TypeOK
  <2>2. HoldersRun'
    BY <1>1, <1>4 DEF TypeOK, HoldersRun
  <2>3. ASSUME NEW w \in Users PROVE RequestOK(w)'
    BY <1>1, <1>4 DEF TypeOK, RequestOK
  <2>4. ASSUME NEW w \in Users PROVE Locked(w)'
    BY <1>1, <1>4 DEF TypeOK, Locked
  <2> QED
    BY <2>1, <2>2, <2>3, <2>4
<1> QED
  BY <1>1, <1>3, <1>4

(* Store leaves the locks with the requests that hold them.                 *)
LEMMA StoreLock ==
    ASSUME LockInv, NEW u \in Users, Store(u)
    PROVE  LockInv'
<1> USE CntrDataAssumption DEF LockInv
<1>1. TypeOK'
  <2>1. res[u] \in Resources /\ val[u] \in Values
    BY DEF Store, RequestOK
  <2> QED
    BY <2>1, SetDataType, DoneType, Zenon DEF TypeOK, Store
<1>2. HoldersRun'
  BY DEF TypeOK, HoldersRun, RequestOK, Locked, Store, Done
<1>3. ASSUME NEW w \in Users PROVE RequestOK(w)'
  BY <1>3, DoneRequest DEF Store
<1>4. ASSUME NEW w \in Users PROVE Locked(w)'
  BY DEF TypeOK, HoldersRun, RequestOK, Locked, Store, Done
<1> QED
  BY <1>1, <1>2, <1>3, <1>4

(* Fails leaves the locks with the requests that hold them.                 *)
LEMMA FailsLock ==
    ASSUME LockInv, NEW u \in Users, Fails(u)
    PROVE  LockInv'
<1> USE CntrDataAssumption DEF LockInv
<1>1. /\ pc[u] \in {"fetch", "read", "write", "push"} /\ UnlockMutex(u)
      /\ Unlock(u) /\ Done(u) /\ UNCHANGED <<fs, data>>
  BY DEF Fails
<1>2. TypeOK'
  BY <1>1, UnlockType, UnlockMutexType, DoneType DEF TypeOK
<1>3. HoldersRun'
  BY <1>1 DEF TypeOK, HoldersRun, Done, Unlock, UnlockMutex
<1>4. ASSUME NEW w \in Users PROVE RequestOK(w)'
  BY <1>1, DoneRequest
<1>5. ASSUME NEW w \in Users PROVE Locked(w)'
  BY <1>1 DEF TypeOK, Locked, RequestOK, Done, Unlock, UnlockMutex
<1> QED
  BY <1>2, <1>3, <1>4, <1>5

(* Every action keeps the locks where they are held.                        *)
LEMMA NextLock == LockInv /\ [Next]_vars => LockInv'
<1> SUFFICES ASSUME LockInv, [Next]_vars PROVE LockInv'
  OBVIOUS
<1>1. CASE UNCHANGED vars
  BY <1>1 DEF vars, LockInv, TypeOK, HoldersRun, RequestOK, Locked
<1>2. ASSUME NEW u \in Users, NEW r \in Resources, Read(u, r) PROVE LockInv'
  BY <1>2, ReadLock
<1>3. ASSUME NEW u \in Users, NEW r \in Resources, NEW v \in Values,
             Write(u, r, v)
      PROVE  LockInv'
  BY <1>3, WriteLock
<1>4. ASSUME NEW u \in Users, Step(u) PROVE LockInv'
  BY <1>4, ReadCachedLock, ReadMissLock, WritePrivateLock, WriteLocksLock,
     AcquireLock, FetchLock, KeepLock, ReadAtLock, WriteRoundLock, PushLock,
     StoreLock, FailsLock DEF Step
<1> QED
  BY <1>1, <1>2, <1>3, <1>4 DEF Next

(* Whatever the requests and however they fail, every lock and mutex that   *)
(* is held is held by a request that is between the Lock() and the Unlock() *)
(* of readCntrData, writeCntrData or ReadWithNS, and the mutex of readFs    *)
(* and writeFs is only held below the lock of the holder's container.       *)
THEOREM LocksReleased == Spec => [](TypeOK /\ HoldersRun)
<1>1. LockInv => TypeOK /\ HoldersRun
  BY DEF LockInv
<1> QED
  BY InitLock, NextLock, <1>1, PTL DEF Spec

(* Whatever the values, the rounds of writeFs stay within its retries and   *)
(* its buffer, and every kept or pushed value is one that was written or    *)
(* the kernel's own.                                                        *)
THEOREM RoundsBounded == Spec => []TypeOK
BY LocksReleased, PTL

-----------------------------------------------------------------------------
(* What a request on a limit knows of the kernel's value: writeFs compared  *)
(* it in the first round, wrote it in every later one, and what is about to *)
(* be kept is covered.                                                      *)
Limit(u) ==
    Raises(res[u]) =>
        /\ pc[u] = "read" => \/ i[u] = 0 /\ size[u] = BufSize
                             \/ i[u] > 0 /\ fs[<<res[u]>>] = val[u]
        /\ pc[u] = "write" => fs[<<res[u]>>] <= val[u]
        /\ pc[u] = "keep" /\ Reads(u) => got[u] <= fs[<<res[u]>>]
        /\ pc[u] = "keep" /\ ~Reads(u) => val[u] <= fs[<<res[u]>>]

HostInv == LockInv /\ HostCoversCaches /\ \A u \in Users : Limit(u)

(* A limit has one value in the host's kernel.                              *)
LEMMA RaisesFile ==
    \A u \in Users, r \in Resources : Raises(r) => File(u, r) = <<r>> /\ <<r>> \in Files
BY FileOK, Zenon DEF File, Raises

(* Files of different resources are different.                              *)
LEMMA OtherFile ==
    \A u \in Users, r, s \in Resources : r # s => File(u, r) # <<s>>
<1> SUFFICES ASSUME NEW u \in Users, NEW r \in Resources, NEW s \in Resources, r # s
             PROVE  File(u, r) # <<s>>
  OBVIOUS
<1>1. File(u, r)[1] = r
  BY DEF File
<1>2. <<s>>[1] = s
  OBVIOUS
<1> QED
  BY <1>1, <1>2

(* A step that leaves the limits and the data stores alone, and after which *)
(* u has nothing to know.                                                   *)
LEMMA Elsewhere ==
    ASSUME HostInv, NEW u \in Users,
           \A w \in Users \ {u} : /\ pc'[w] = pc[w] /\ op'[w] = op[w]
                                  /\ res'[w] = res[w] /\ val'[w] = val[w]
                                  /\ got'[w] = got[w] /\ i'[w] = i[w]
                                  /\ size'[w] = size[w],
           \A r \in Resources : Raises(r) => fs'[<<r>>] = fs[<<r>>],
           Limit(u)', LockInv'
    PROVE  \A w \in Users : Limit(w)'
<1> SUFFICES ASSUME NEW w \in Users, w # u PROVE Limit(w)'
  OBVIOUS
<1>1. Limit(w) /\ (pc[w] # "idle" => res[w] \in Resources)
  BY SMTT(30) DEF HostInv, LockInv, RequestOK
<1>2. pc[w] # "idle" /\ Raises(res[w]) => fs'[<<res[w]>>] = fs[<<res[w]>>]
  BY <1>1, SMTT(30)
<1> QED
  BY <1>1, <1>2 DEF Limit

(* A step in which u alone moves, the kernel's limits and the data stores   *)
(* stay, and u is not left with anything to know.                           *)
LEMMA QuietHost ==
    ASSUME HostInv, LockInv', NEW u \in Users, NEW s \in Steps,
           s \notin {"read", "write", "keep"},
           pc' = [pc EXCEPT ![u] = s],
           \A w \in Users \ {u} : /\ op'[w] = op[w] /\ res'[w] = res[w]
                                  /\ val'[w] = val[w] /\ got'[w] = got[w]
                                  /\ i'[w] = i[w] /\ size'[w] = size[w],
           \A r \in Resources : Raises(r) => fs'[<<r>>] = fs[<<r>>],
           \A c \in Cntrs, r \in Resources : Raises(r) => data'[c][r] = data[c][r]
    PROVE  HostInv'
<1>1. /\ pc'[u] = s
      /\ \A w \in Users \ {u} : pc'[w] = pc[w]
  BY DEF HostInv, LockInv, TypeOK
<1>2. Limit(u)'
  BY <1>1 DEF Limit
<1>3. \A w \in Users : Limit(w)'
  BY <1>1, <1>2, Elsewhere
<1>4. HostCoversCaches'
  BY DEF HostInv, HostCoversCaches
<1> QED
  BY <1>3, <1>4 DEF HostInv

(* The data stores start empty.                                             *)
LEMMA InitHost == Init => HostInv
<1> SUFFICES ASSUME Init PROVE HostInv
  OBVIOUS
<1>1. LockInv
  BY InitLock
<1>2. HostCoversCaches
  BY DEF Init, HostCoversCaches
<1>3. ASSUME NEW u \in Users PROVE Limit(u)
  BY DEF Init, Limit
<1> QED
  BY <1>1, <1>2, <1>3 DEF HostInv

(* The steps that neither touch the kernel's limits nor the containers'     *)
(* values of them.                                                          *)
LEMMA QuietSteps ==
    ASSUME HostInv, LockInv', NEW u \in Users,
           \/ \E r \in Resources : Read(u, r) \/ \E v \in Values : Write(u, r, v)
           \/ ReadCached(u) \/ ReadMiss(u) \/ WriteLocks(u) \/ Fails(u)
    PROVE  HostInv'
<1>1. \E s \in {"idle", "enter", "queue", "fetch", "push"} : pc' = [pc EXCEPT ![u] = s]
  BY Zenon DEF Read, Write, ReadCached, ReadMiss, WriteLocks, Fails, Done
<1>2. UNCHANGED <<fs, data>>
  BY Zenon DEF Read, Write, ReadCached, ReadMiss, WriteLocks, Fails
<1> DEFINE Others ==
        \A w \in Users \ {u} : /\ op'[w] = op[w] /\ res'[w] = res[w]
                               /\ val'[w] = val[w] /\ got'[w] = got[w]
                               /\ i'[w] = i[w] /\ size'[w] = size[w]
<1>3. Others
  <2>1. CASE Done(u)
    BY <2>1 DEF Done, HostInv, LockInv, TypeOK
  <2>2. CASE UNCHANGED <<op, res, val, got, i, size>>
    BY <2>2, SMTT(30)
  <2>3. CASE \E r \in Resources : Read(u, r) \/ \E v \in Values : Write(u, r, v)
    <3>1. ASSUME NEW r \in Resources, Read(u, r) PROVE Others
      BY <3>1 DEF Read, HostInv, LockInv, TypeOK
    <3>2. ASSUME NEW r \in Resources, NEW v \in Values, Write(u, r, v) PROVE Others
      BY <3>2 DEF Write, HostInv, LockInv, TypeOK
    <3> QED
      BY <2>3, <3>1, <3>2
  <2> QED
    BY <2>1, <2>2, <2>3, Zenon DEF ReadCached, ReadMiss, WriteLocks, Fails
<1> QED
  BY <1>1, <1>2, <1>3, QuietHost, Zenon

(* A value kept by a container alone, or of a pass-through file, is of no   *)
(* limit.                                                                   *)
LEMMA StoreHost ==
    ASSUME HostInv, LockInv', NEW u \in Users, WritePrivate(u) \/ Store(u)
    PROVE  HostInv'
<1>1. /\ pc' = [pc EXCEPT ![u] = "idle"] /\ fs' = fs /\ SetData(u, val[u])
  BY SMTT(30) DEF WritePrivate, Store, Done
<1>2. res[u] \in Resources /\ ~Raises(res[u])
  BY SMTT(30) DEF WritePrivate, Store, HostInv, LockInv, RequestOK, Raises, Pushes
<1>3. \A w \in Users \ {u} : /\ op'[w] = op[w] /\ res'[w] = res[w]
                             /\ val'[w] = val[w] /\ got'[w] = got[w]
                             /\ i'[w] = i[w] /\ size'[w] = size[w]
  BY SMTT(30) DEF WritePrivate, Store, Done, HostInv, LockInv, TypeOK
<1>4. \A c \in Cntrs, r \in Resources : Raises(r) => data'[c][r] = data[c][r]
  BY <1>1, <1>2 DEF SetData, HostInv, LockInv, TypeOK
<1> QED
  BY <1>1, <1>3, <1>4, QuietHost, Zenon

(* pushFile() writes a file of no limit.                                    *)
LEMMA PushHost ==
    ASSUME HostInv, LockInv', NEW u \in Users, Push(u)
    PROVE  HostInv'
<1>1. /\ data' = data /\ WriteAt(u)
      /\ \E s \in {"idle", "store"} : pc' = [pc EXCEPT ![u] = s]
  BY DEF Push, Done
<1>2. res[u] \in Resources /\ ~Raises(res[u])
  BY SMTT(30) DEF Push, HostInv, LockInv, RequestOK, Raises
<1>3. \A w \in Users \ {u} : /\ op'[w] = op[w] /\ res'[w] = res[w]
                             /\ val'[w] = val[w] /\ got'[w] = got[w]
                             /\ i'[w] = i[w] /\ size'[w] = size[w]
  BY DEF Push, Done, HostInv, LockInv, TypeOK
<1>4. ASSUME NEW r \in Resources, Raises(r) PROVE fs'[<<r>>] = fs[<<r>>]
  <2>1. File(u, res[u]) # <<r>>
    BY <1>2, <1>4, OtherFile
  <2>2. <<r>> \in Files
    BY <1>4, RaisesFile
  <2> QED
    BY <1>1, <2>1, <2>2 DEF WriteAt, HostInv, LockInv, TypeOK
<1> QED
  BY <1>1, <1>3, <1>4, QuietHost, Zenon

(* writeFs starts its rounds with the whole buffer.                         *)
LEMMA AcquireHost ==
    ASSUME HostInv, LockInv', NEW u \in Users, Acquire(u)
    PROVE  HostInv'
<1>1. /\ UNCHANGED <<fs, data, op, res, val, got, i, size>>
      /\ \E s \in {"fetch", "read"} : pc' = [pc EXCEPT ![u] = s]
      /\ pc[u] = "queue"
  BY Zenon DEF Acquire
<1>2. i[u] = 0 /\ size[u] = BufSize
  BY <1>1, SMTT(30) DEF HostInv, LockInv, RequestOK
<1>3. Limit(u)'
  BY <1>1, <1>2 DEF Limit, HostInv, LockInv, TypeOK
<1>4. \A w \in Users \ {u} : pc'[w] = pc[w]
  BY <1>1 DEF HostInv, LockInv, TypeOK
<1>5. \A w \in Users : Limit(w)'
  BY <1>1, <1>3, <1>4, Elsewhere
<1> QED
  BY <1>1, <1>5 DEF HostInv, HostCoversCaches

(* readFs gives what the kernel has.                                        *)
LEMMA FetchHost ==
    ASSUME HostInv, LockInv', NEW u \in Users, Fetch(u)
    PROVE  HostInv'
<1>1. UNCHANGED <<fs, data>> /\ pc[u] = "fetch" /\ res[u] \in Resources
  BY SMTT(30) DEF Fetch, HostInv, LockInv, RequestOK
<1>2. CASE Bypass(u)
  <2>1. Done(u)
    BY <1>2 DEF Fetch
  <2>2. \A w \in Users \ {u} : /\ op'[w] = op[w] /\ res'[w] = res[w]
                               /\ val'[w] = val[w] /\ got'[w] = got[w]
                               /\ i'[w] = i[w] /\ size'[w] = size[w]
    BY <2>1 DEF Done, HostInv, LockInv, TypeOK
  <2> QED
    BY <1>1, <2>1, <2>2, QuietHost, Zenon DEF Done
<1>3. CASE ~Bypass(u)
  <2>1. /\ pc' = [pc EXCEPT ![u] = "keep"]
        /\ got' = [got EXCEPT ![u] = Kernel(u)]
        /\ UNCHANGED <<op, res, val, i, size>>
    BY <1>3 DEF Fetch
  <2>2. /\ pc'[u] = "keep" /\ got'[u] = Kernel(u) /\ op[u] = "read"
        /\ \A w \in Users \ {u} : pc'[w] = pc[w] /\ got'[w] = got[w]
    BY <1>1, <2>1 DEF HostInv, LockInv, TypeOK, RequestOK
  <2>3. Raises(res[u]) => Kernel(u) = fs[<<res[u]>>] /\ Kernel(u) \in Nat
    BY <1>1, RaisesFile, CntrDataAssumption, ZenonT(30) DEF Kernel, HostInv, LockInv, TypeOK
  <2>4. Limit(u)'
    <3>1. fs' = fs /\ res'[u] = res[u] /\ op'[u] = "read"
      BY <1>1, <2>1, <2>2, SMTT(30)
    <3>2. Raises(res[u]) => got'[u] = fs[<<res[u]>>] /\ got'[u] <= fs[<<res[u]>>]
      BY <2>2, <2>3
    <3> QED
      BY <2>2, <3>1, <3>2, Zenon DEF Limit
  <2>5. \A w \in Users : Limit(w)'
    BY <1>1, <2>1, <2>2, <2>4, Elsewhere
  <2> QED
    BY <1>1, <2>5, SMTT(30) DEF HostInv, HostCoversCaches
<1> QED
  BY <1>2, <1>3

(* What is kept is covered.                                                 *)
LEMMA KeepHost ==
    ASSUME HostInv, LockInv', NEW u \in Users, Keep(u)
    PROVE  HostInv'
<1> DEFINE v == IF Reads(u) THEN got[u] ELSE val[u]
<1>1. /\ pc[u] = "keep" /\ res[u] \in Resources /\ fs' = fs /\ Done(u)
      /\ data' = [data EXCEPT ![CntrOf[u]][res[u]] = v]
  BY DEF Keep, SetData, HostInv, LockInv, RequestOK
<1>2. Raises(res[u]) => v <= fs[<<res[u]>>]
  BY <1>1 DEF HostInv, Limit
<1> HIDE DEF v
<1>3. HostCoversCaches'
  <2> SUFFICES ASSUME NEW c \in Cntrs, NEW r \in Resources, Raises(r), data'[c][r] # None
               PROVE  data'[c][r] <= fs[<<r>>]
    BY <1>1 DEF HostCoversCaches
  <2>1. CASE c = CntrOf[u] /\ r = res[u]
    BY <1>1, <1>2, <2>1 DEF HostInv, LockInv, TypeOK
  <2>2. CASE ~(c = CntrOf[u] /\ r = res[u])
    <3>1. data'[c][r] = data[c][r]
      BY <1>1, <2>2 DEF HostInv, LockInv, TypeOK
    <3> QED
      BY <3>1 DEF HostInv, HostCoversCaches
  <2> QED
    BY <2>1, <2>2
<1>4. /\ pc'[u] = "idle"
      /\ \A w \in Users \ {u} : /\ pc'[w] = pc[w] /\ op'[w] = op[w]
                                /\ res'[w] = res[w] /\ val'[w] = val[w]
                                /\ got'[w] = got[w] /\ i'[w] = i[w]
                                /\ size'[w] = size[w]
  BY <1>1, SMTT(30) DEF Done, HostInv, LockInv, TypeOK
<1>5. Limit(u)'
  BY <1>4, SMTT(30) DEF Limit
<1>6. \A w \in Users : Limit(w)'
  BY <1>1, <1>4, <1>5, Elsewhere
<1> QED
  BY <1>3, <1>6 DEF HostInv

(* A round that decides to write has seen a smaller value, or the truncated *)
(* form of its own; a round that decides not to has seen a value at least   *)
(* as large.                                                                *)
LEMMA ReadAtHost ==
    ASSUME HostInv, LockInv', NEW u \in Users, ReadAt(u)
    PROVE  HostInv'
<1>1. /\ pc[u] = "read" /\ UNCHANGED <<fs, data, op, res, val, got, i>>
      /\ \E n \in 2..BufSize : size' = [size EXCEPT ![u] = n]
      /\ \/ pc' = [pc EXCEPT ![u] = "write"]
         \/ pc' = [pc EXCEPT ![u] = "keep"]
  BY ReadAtSplit DEF HostInv
<1>2. /\ res[u] \in Resources /\ ~Reads(u)
      /\ val[u] \in Nat
  BY <1>1, CntrDataAssumption, Zenon DEF HostInv, LockInv, RequestOK
<1>3. \A w \in Users \ {u} : pc'[w] = pc[w] /\ size'[w] = size[w]
  BY <1>1 DEF HostInv, LockInv, TypeOK
<1>4. Limit(u)'
  <2> SUFFICES ASSUME Raises(res[u])
               PROVE  /\ pc'[u] = "write" => fs[<<res[u]>>] <= val[u]
                      /\ pc'[u] = "keep" => val[u] <= fs[<<res[u]>>]
    BY <1>1, <1>2 DEF Limit, HostInv, LockInv, TypeOK
  <2>1. Kernel(u) = fs[<<res[u]>>] /\ Kernel(u) \in Values /\ Kernel(u) \in Nat
    BY <1>2, RaisesFile, CntrDataAssumption, ZenonT(30) DEF Kernel, HostInv, LockInv, TypeOK
  <2>2. CASE Kernel(u) = val[u]
    BY <1>2, <2>1, <2>2, SMTT(30)
  <2>3. CASE Kernel(u) # val[u]
    <3>1. size[u] = BufSize
      BY <1>1, <2>1, <2>3, SMTT(30) DEF HostInv, Limit
    <3>2. Bytes(Kernel(u)) \in 2..BufSize
      BY <2>1, BytesAssumption
    <3>3. (IF size[u] < Bytes(Kernel(u)) THEN size[u] ELSE Bytes(Kernel(u)))
              = Bytes(Kernel(u))
      BY <3>1, <3>2, BufSizeOK
    <3>4. Leading(Kernel(u), Bytes(Kernel(u))) = Kernel(u)
      BY <3>2, BufSizeOK DEF Leading
    <3>5. IF WrCondition(res[u], Kernel(u), val[u])
          THEN pc' = [pc EXCEPT ![u] = "write"]
          ELSE pc' = [pc EXCEPT ![u] = "keep"]
      BY <2>3, <3>3, <3>4 DEF ReadAt
    <3>6. WrCondition(res[u], Kernel(u), val[u]) <=> val[u] > Kernel(u)
      BY DEF WrCondition, Raises
    <3>7. CASE val[u] > Kernel(u)
      BY <1>1, <1>2, <2>1, <3>5, <3>6, <3>7 DEF HostInv, LockInv, TypeOK
    <3>8. CASE ~(val[u] > Kernel(u))
      BY <1>1, <1>2, <2>1, <3>5, <3>6, <3>8 DEF HostInv, LockInv, TypeOK
    <3> QED
      BY <3>7, <3>8
  <2> QED
    BY <2>2, <2>3, SMTT(30)
<1>5. \A w \in Users : Limit(w)'
  BY <1>1, <1>3, <1>4, Elsewhere, SMTT(30)
<1> QED
  BY <1>1, <1>5, Zenon DEF HostInv, HostCoversCaches

(* A round only raises a limit, and no other request is in its rounds on    *)
(* the same resource.                                                       *)
LEMMA WriteRoundHost ==
    ASSUME HostInv, LockInv', NEW u \in Users, WriteRound(u)
    PROVE  HostInv'
<1>1. /\ pc[u] = "write" /\ WriteAt(u)
      /\ i' = [i EXCEPT ![u] = @ + 1]
      /\ UNCHANGED <<data, op, res, val, got, size>>
      /\ \/ pc' = [pc EXCEPT ![u] = "read"]
         \/ pc' = [pc EXCEPT ![u] = "keep"]
  BY DEF WriteRound
<1>2. /\ res[u] \in Resources /\ ~Reads(u) /\ val[u] \in Values /\ val[u] \in Nat
      /\ mutex[res[u]] = u
  BY <1>1, CntrDataAssumption, Zenon DEF HostInv, LockInv, RequestOK, Locked
<1>3. \A r \in Resources : Raises(r) => fs[<<r>>] \in Nat
  BY RaisesFile, CntrDataAssumption, Zenon DEF HostInv, LockInv, TypeOK
<1>4. ASSUME NEW r \in Resources, Raises(r)
      PROVE  fs'[<<r>>] = IF r = res[u] THEN val[u] ELSE fs[<<r>>]
  <2>1. <<r>> \in Files /\ File(u, r) = <<r>>
    BY <1>4, RaisesFile
  <2>2. CASE r = res[u]
    BY <1>1, <1>2, <2>1, <2>2 DEF WriteAt, HostInv, LockInv, TypeOK
  <2>3. CASE r # res[u]
    BY <1>1, <1>2, <2>1, <2>3, OtherFile DEF WriteAt, HostInv, LockInv, TypeOK
  <2> QED
    BY <2>2, <2>3
<1>5. ASSUME NEW r \in Resources, Raises(r) PROVE fs[<<r>>] <= fs'[<<r>>] /\ fs'[<<r>>] \in Nat
  <2>1. Raises(res[u]) => fs[<<res[u]>>] <= val[u]
    BY <1>1, Zenon DEF HostInv, Limit
  <2> QED
    BY <1>2, <1>3, <1>4, <1>5, <2>1, SMTT(30)
<1>6. HostCoversCaches'
  <2> SUFFICES ASSUME NEW c \in Cntrs, NEW r \in Resources, Raises(r), data[c][r] # None
               PROVE  data[c][r] <= fs'[<<r>>]
    BY <1>1, Zenon DEF HostCoversCaches
  <2>1. data[c][r] \in Nat
    <3>1. data[c][r] \in Values \cup {None}
      BY DEF HostInv, LockInv, TypeOK
    <3> QED
      BY <3>1, CntrDataAssumption, Zenon
  <2>2. data[c][r] <= fs[<<r>>]
    BY DEF HostInv, HostCoversCaches
  <2> QED
    BY <1>3, <1>5, <2>1, <2>2
<1>7. Limit(u)'
  <2>1. i'[u] > 0 /\ pc'[u] \in {"read", "keep"}
    BY <1>1, BufSizeOK DEF HostInv, LockInv, TypeOK
  <2>2. Raises(res[u]) => fs'[<<res[u]>>] = val[u]
    BY <1>2, <1>4
  <2>3. res'[u] = res[u] /\ op'[u] # "read" /\ val'[u] = val[u] /\ val[u] <= val[u]
    BY <1>1, <1>2, SMTT(30)
  <2> QED
    BY <2>1, <2>2, <2>3 DEF Limit
<1>8. ASSUME NEW w \in Users, w # u PROVE Limit(w)'
  <2>1. pc'[w] = pc[w] /\ i'[w] = i[w]
    BY <1>1, <1>8 DEF HostInv, LockInv, TypeOK
  <2>2. pc[w] # "idle" => res[w] \in Resources
    BY SMTT(30) DEF HostInv, LockInv, RequestOK
  <2>3. CASE pc[w] \in {"read", "write"}
    <3>1. res[w] # res[u]
      BY <1>2, <1>8, <2>3, Zenon DEF HostInv, LockInv, Locked
    <3>2. Raises(res[w]) => fs'[<<res[w]>>] = fs[<<res[w]>>]
      BY <1>4, <2>2, <2>3, <3>1
    <3> QED
      BY <1>1, <2>1, <2>3, <3>2, Zenon DEF Limit, HostInv
  <2>4. CASE pc[w] = "keep"
    <3>1. (Reads(w) => got[w] \in Nat) /\ (~Reads(w) => val[w] \in Nat)
      BY <2>4, CntrDataAssumption, Zenon DEF HostInv, LockInv, RequestOK
    <3>2. Raises(res[w]) => /\ fs[<<res[w]>>] <= fs'[<<res[w]>>]
                            /\ fs[<<res[w]>>] \in Nat /\ fs'[<<res[w]>>] \in Nat
      BY <1>3, <1>5, <2>2, <2>4
    <3>3. Raises(res[w]) => /\ Reads(w) => got[w] <= fs[<<res[w]>>]
                            /\ ~Reads(w) => val[w] <= fs[<<res[w]>>]
      BY <2>4 DEF Limit, HostInv
    <3>4. Raises(res[w]) => /\ Reads(w) => got[w] <= fs'[<<res[w]>>]
                            /\ ~Reads(w) => val[w] <= fs'[<<res[w]>>]
      BY <3>1, <3>2, <3>3
    <3> QED
      BY <1>1, <2>1, <2>4, <3>4, Zenon DEF Limit
  <2> QED
    BY <2>1, <2>3, <2>4 DEF Limit
<1> QED
  BY <1>6, <1>7, <1>8 DEF HostInv

(* Every action keeps the limits covered.                                   *)
LEMMA NextHost == HostInv /\ [Next]_vars => HostInv'
<1> SUFFICES ASSUME HostInv, [Next]_vars PROVE HostInv'
  OBVIOUS
<1>1. LockInv'
  BY NextLock DEF HostInv
<1>2. CASE UNCHANGED vars
  BY <1>1, <1>2, SMTT(30) DEF vars, HostInv, HostCoversCaches, Limit
<1>3. ASSUME NEW u \in Users,
             \E r \in Resources : Read(u, r) \/ \E v \in Values : Write(u, r, v)
      PROVE  HostInv'
  BY <1>1, <1>3, QuietSteps
<1>4. ASSUME NEW u \in Users, Step(u) PROVE HostInv'
  BY <1>1, <1>4, QuietSteps, StoreHost, PushHost, AcquireHost, FetchHost,
     KeepHost, ReadAtHost, WriteRoundHost DEF Step
<1> QED
  BY <1>2, <1>3, <1>4 DEF Next

(* writeMaxIntToFs with writeFs's rounds and truncated buffers, any number  *)
(* of containers and of processes in each: no data store holds a limit      *)
(* above the one the kernel applies.                                        *)
THEOREM HostCovers == Spec => []HostCoversCaches
<1>1. HostInv => HostCoversCaches
  BY DEF HostInv
<1> QED
  BY InitHost, NextHost, <1>1, PTL DEF Spec
-----------------------------------------------------------------------------
(* A read that goes on to keep what it fetched has missed, and the lock it  *)
(* holds since leaves it so.                                                *)
Missed(u) == pc[u] \in {"queue", "fetch", "keep"} /\ Reads(u) /\ ~Bypass(u) => Data(u) = None

(* writeFs writes what the wrCondition of the resource let through.         *)
Allowed(u) == pc[u] = "write" =>
    \/ Raises(res[u])
    \/ Emulated[res[u]].push = "writeTcpLiberal" /\ val[u] # 0
    \/ Emulated[res[u]].push = "writeToFs"

StepInv == \A u \in Users : Missed(u) /\ Allowed(u)

LEMMA InitStep == Init => StepInv
BY SMTT(30) DEF Init, StepInv, Missed, Allowed

(* A request's step leaves the other requests as they were.                 *)
LEMMA OtherRequests ==
    ASSUME LockInv, NEW u \in Users, NEW w \in Users, w # u,
           \/ \E r \in Resources : Read(u, r) \/ \E v \in Values : Write(u, r, v)
           \/ Step(u)
    PROVE  pc'[w] = pc[w] /\ op'[w] = op[w] /\ res'[w] = res[w] /\ val'[w] = val[w]
<1>1. ASSUME NEW r \in Resources, Read(u, r) \/ \E v \in Values : Write(u, r, v)
      PROVE  pc'[w] = pc[w] /\ op'[w] = op[w] /\ res'[w] = res[w] /\ val'[w] = val[w]
  BY <1>1, Zenon DEF Read, Write, LockInv, TypeOK
<1>2. ASSUME Step(u)
      PROVE  pc'[w] = pc[w] /\ op'[w] = op[w] /\ res'[w] = res[w] /\ val'[w] = val[w]
  BY <1>2, Zenon DEF LockInv, TypeOK, Step, ReadCached, ReadMiss, WritePrivate, WriteLocks, Acquire,
              Fetch, Keep, ReadAt, WriteRound, Push, Store, Fails, Done
<1> QED
  BY <1>1, <1>2, Zenon

(* Who changes a data store: a write, or a read that missed.                *)
LEMMA Stores ==
    ASSUME LockInv, StepInv, NEW u \in Users,
           \/ \E r \in Resources : Read(u, r) \/ \E v \in Values : Write(u, r, v)
           \/ Step(u)
    PROVE  \/ data' = data
           \/ /\ pc'[u] = "idle" /\ res[u] \in Resources
              /\ lock[CntrOf[u]] \in {None, u}
              /\ \/ Reads(u) /\ Data(u) = None /\ SetData(u, got[u])
                 \/ op[u] = "write" /\ SetData(u, val[u])
<1>1. CASE WritePrivate(u) \/ Store(u)
  BY <1>1, Zenon DEF WritePrivate, Store, Done, LockInv, TypeOK, RequestOK
<1>2. CASE Keep(u)
  <2>1. res[u] \in Resources /\ op[u] \in {"read", "write"} /\ ~Bypass(u) /\ lock[CntrOf[u]] = u
    BY <1>2, Zenon DEF Keep, LockInv, RequestOK, Locked
  <2>2. pc'[u] = "idle"
    BY <1>2 DEF Keep, Done, LockInv, TypeOK
  <2>3. Reads(u) => Data(u) = None
    BY <1>2, <2>1, Zenon DEF Keep, StepInv, Missed
  <2> QED
    BY <1>2, <2>1, <2>2, <2>3, Zenon DEF Keep
<1>3. CASE ~(WritePrivate(u) \/ Store(u) \/ Keep(u))
  BY <1>3, Zenon DEF Read, Write, Step, ReadCached, ReadMiss, WriteLocks, Acquire, Fetch, ReadAt,
              WriteRound, Push, Fails
<1> QED
  BY <1>1, <1>2, <1>3, Zenon

LEMMA NextStep ==
    ASSUME LockInv, StepInv, NEW u \in Users,
           \/ \E r \in Resources : Read(u, r) \/ \E v \in Values : Write(u, r, v)
           \/ Step(u)
    PROVE  StepInv'
<1>1. ASSUME NEW w \in Users, w # u PROVE Missed(w)' /\ Allowed(w)'
  <2>1. pc'[w] = pc[w] /\ op'[w] = op[w] /\ res'[w] = res[w] /\ val'[w] = val[w]
    BY <1>1, OtherRequests, Zenon
  <2>2. pc[w] \in {"queue", "fetch", "keep"} /\ Reads(w) /\ ~Bypass(w) => Data(w)' = Data(w)
    <3>1. pc[w] \in {"queue", "fetch", "keep"} /\ ~Bypass(w) => lock[CntrOf[w]] = w
      BY SMTT(30) DEF LockInv, Locked
    <3>2. \A v : SetData(u, v) /\ CntrOf[u] # CntrOf[w] => data'[CntrOf[w]] = data[CntrOf[w]]
      BY CntrDataAssumption DEF SetData, LockInv, TypeOK
    <3>3. w # None
      BY CntrDataAssumption
    <3> QED
      BY <1>1, <2>1, <3>1, <3>2, <3>3, Stores, SMTT(30) DEF Data
  <2> QED
    BY <2>1, <2>2, SMTT(30) DEF StepInv, Missed, Allowed
<1>2. Allowed(u)'
  <2>1. CASE ReadAt(u) /\ pc'[u] = "write"
    <3>1. \E curr : WrCondition(res[u], curr, val[u])
      BY <2>1 DEF ReadAt, LockInv, TypeOK
    <3>2. IsEmulated(res[u]) /\ res'[u] = res[u] /\ val'[u] = val[u]
      BY <2>1 DEF ReadAt, LockInv, RequestOK
    <3> QED
      BY <3>1, <3>2, SMTT(30) DEF Allowed, WrCondition, Raises
  <2>2. ~ReadAt(u) => pc'[u] # "write"
    BY ZenonT(30) DEF LockInv, TypeOK, Read, Write, Step, ReadCached, ReadMiss, WritePrivate,
           WriteLocks, Acquire, Fetch, Keep, WriteRound, Push, Store, Fails, Done
  <2> QED
    BY <2>1, <2>2, SMTT(30) DEF Allowed
<1>3. Missed(u)'
  <2>1. CASE ReadMiss(u)
    BY <2>1 DEF ReadMiss, Missed, Data, LockInv, TypeOK
  <2>2. CASE Acquire(u) \/ Fetch(u)
    BY <2>2, Zenon DEF Acquire, Fetch, Done, StepInv, Missed, Data, LockInv, TypeOK, RequestOK
  <2>3. CASE ~(ReadMiss(u) \/ Acquire(u) \/ Fetch(u))
    <3>1. \/ pc'[u] \notin {"queue", "fetch", "keep"}
          \/ ~Reads(u)'
          \/ Bypass(u)'
      BY <2>3, ZenonT(30) DEF LockInv, TypeOK, Read, Write, Step, ReadCached, WritePrivate,
                  WriteLocks, Keep, ReadAt, WriteRound, Push, Store, Fails, Done, RequestOK
    <3> QED
      BY <3>1 DEF Missed
  <2> QED
    BY <2>1, <2>2, <2>3
<1> QED
  BY <1>1, <1>2, <1>3 DEF StepInv

LEMMA Stepwise == LockInv /\ StepInv /\ [Next]_vars => StepInv'
<1> SUFFICES ASSUME LockInv, StepInv, [Next]_vars PROVE StepInv'
  OBVIOUS
<1>1. CASE UNCHANGED vars
  BY <1>1, Zenon DEF vars, StepInv, Missed, Allowed, Data
<1> QED
  BY <1>1, NextStep DEF Next

(* However reads that missed and writes of a container interleave, a value  *)
(* in its data store is replaced only by one that a process of the          *)
(* container writes at that moment.                                         *)
THEOREM OnlyWritesReplace == Spec => KeptUntilWritten
<1> DEFINE Replaces == \A c \in Cntrs, r \in Resources :
               data[c][r] # None /\ data'[c][r] # data[c][r] =>
                   \E u \in Users : /\ CntrOf[u] = c
                                    /\ op[u] = "write" /\ res[u] = r
                                    /\ val[u] = data'[c][r]
<1>1. LockInv /\ StepInv /\ [Next]_vars => [Replaces]_vars
  <2> SUFFICES ASSUME LockInv, StepInv, Next,
                      NEW c \in Cntrs, NEW r \in Resources,
                      data[c][r] # None, data'[c][r] # data[c][r]
               PROVE  \E u \in Users : /\ CntrOf[u] = c
                                       /\ op[u] = "write" /\ res[u] = r
                                       /\ val[u] = data'[c][r]
    BY DEF vars
  <2>1. PICK u \in Users :
            \/ \E s \in Resources : Read(u, s) \/ \E v \in Values : Write(u, s, v)
            \/ Step(u)
    BY DEF Next
  <2>2. \/ Data(u) = None /\ SetData(u, got[u])
        \/ op[u] = "write" /\ SetData(u, val[u])
    BY <2>1, Stores, Zenon
  <2>3. ASSUME NEW v, data' = [data EXCEPT ![CntrOf[u]][res[u]] = v]
        PROVE  CntrOf[u] = c /\ res[u] = r /\ data'[c][r] = v
    BY <2>3, CntrDataAssumption DEF LockInv, TypeOK
  <2>4. CASE Data(u) = None /\ SetData(u, got[u])
    BY <2>3, <2>4 DEF SetData, Data
  <2>5. CASE op[u] = "write" /\ SetData(u, val[u])
    BY <2>3, <2>5 DEF SetData
  <2> QED
    BY <2>2, <2>4, <2>5
<1> QED
  BY <1>1, InitLock, NextLock, InitStep, Stepwise, PTL DEF Spec, KeptUntilWritten

(* With any number of containers and processes, the rounds and truncated    *)
(* buffers of writeFs never lower a limit in the host's kernel, never       *)
(* switch off what writeTcpLiberal guards and never write a value a         *)
(* container keeps for itself.                                              *)
THEOREM NeverLowered == Spec => HostOnlyRaised
<1> DEFINE Raised == \A r \in {s \in Resources : IsEmulated(s)} :
               LET v == fs[<<r>>]
                   w == fs'[<<r>>]
               IN  w # v => \/ Raises(r) /\ w > v
                            \/ Emulated[r].push = "writeTcpLiberal" /\ w # 0
                            \/ Emulated[r].push = "writeToFs"
<1>1. HostInv /\ StepInv /\ [Next]_vars => [Raised]_vars
  <2> SUFFICES ASSUME HostInv, StepInv, Next,
                      NEW r \in Resources, IsEmulated(r), fs'[<<r>>] # fs[<<r>>]
               PROVE  \/ Raises(r) /\ fs'[<<r>>] > fs[<<r>>]
                      \/ Emulated[r].push = "writeTcpLiberal" /\ fs'[<<r>>] # 0
                      \/ Emulated[r].push = "writeToFs"
    BY DEF vars
  <2>1. PICK u \in Users : WriteRound(u) \/ Push(u)
    BY ZenonT(30) DEF Next, Read, Write, Step, ReadCached, ReadMiss, WritePrivate, WriteLocks,
           Acquire, Fetch, Keep, ReadAt, Store, Fails
  <2>2. res[u] \in Resources /\ val[u] \in Values /\ (Push(u) => ~IsEmulated(res[u]))
    BY <2>1, Zenon DEF WriteRound, Push, HostInv, LockInv, RequestOK
  <2>3. fs' = [fs EXCEPT ![File(u, res[u])] = val[u]]
    BY <2>1, Zenon DEF WriteRound, Push, WriteAt
  <2>4. res[u] = r
    BY <2>2, <2>3, OtherFile DEF HostInv, LockInv, TypeOK
  <2>5. WriteRound(u) /\ pc[u] = "write" /\ File(u, r) = <<r>> /\ <<r>> \in Files
    BY <2>1, <2>2, <2>4, FileOK, Zenon DEF WriteRound, File
  <2>6. fs'[<<r>>] = val[u]
    BY <2>3, <2>4, <2>5 DEF HostInv, LockInv, TypeOK
  <2>7. Raises(r) => fs[<<r>>] <= val[u] /\ fs[<<r>>] \in Nat /\ val[u] \in Nat
    BY <2>2, <2>4, <2>5, CntrDataAssumption, Zenon DEF HostInv, Limit, LockInv, TypeOK
  <2> QED
    BY <2>4, <2>5, <2>6, <2>7 DEF StepInv, Allowed
<1> QED
  BY <1>1, InitHost, NextHost, InitStep, Stepwise, PTL DEF Spec, HostOnlyRaised, HostInv
-----------------------------------------------------------------------------
(* A write of r in container k is between pushFile() and SetData().         *)
Storing(k, r) == \E w \in Users \ Inner : CntrOf[w] = k /\ pc[w] = "store" /\ res[w] = r

(* What a read is about to keep is the kernel's value, or about to be       *)
(* replaced; what a write is about to keep is the kernel's value.           *)
Coherent(u) ==
    /\ pc[u] = "keep" /\ Reads(u) /\ ~IsEmulated(res[u]) =>
           got[u] = Kernel(u) \/ Storing(CntrOf[u], res[u])
    /\ pc[u] = "store" => u \notin Inner /\ val[u] = Kernel(u)
    /\ pc[u] \in {"push", "store"} => <<u, "write", res[u], val[u]>> \in Uses

CacheInv == CacheCoherent /\ \A u \in Users : Coherent(u)

StepOf(u) == \/ \E r \in Resources : Read(u, r) \/ \E v \in Values : Write(u, r, v)
             \/ Step(u)

(* The file a container caches is written by its own pushes only.           *)
LEMMA CachedFile ==
    ASSUME LockInv, NEW u \in Users, StepOf(u),
           NEW w \in Users \ Inner, NEW r \in Resources, ~IsEmulated(r)
    PROVE  \/ fs'[File(w, r)] = fs[File(w, r)]
           \/ Push(u) /\ u \notin Inner /\ CntrOf[u] = CntrOf[w] /\ res[u] = r
<1>1. CASE ~(WriteRound(u) \/ Push(u))
  BY <1>1, ZenonT(30) DEF StepOf, Read, Write, Step, ReadCached, ReadMiss, WritePrivate, WriteLocks,
           Acquire, Fetch, Keep, ReadAt, Store, Fails
<1>2. CASE WriteRound(u) \/ Push(u)
  <2>1. res[u] \in Resources /\ (WriteRound(u) => IsEmulated(res[u])) /\ (Push(u) => ~IsEmulated(res[u]))
    BY <1>2, Zenon DEF WriteRound, Push, LockInv, RequestOK
  <2>2. fs' = [fs EXCEPT ![File(u, res[u])] = val[u]]
    BY <1>2, Zenon DEF WriteRound, Push, WriteAt
  <2>3. File(w, r) = <<r, CntrOf[w]>> /\ CntrOf[w] \in Cntrs /\ CntrOf[u] \in Cntrs
    BY CntrDataAssumption DEF File
  <2>4. CASE IsEmulated(res[u])
    <3>1. File(u, res[u]) # File(w, r)
      BY <2>3, <2>4 DEF File
    <3> QED
      BY <2>2, <3>1, FileOK DEF LockInv, TypeOK
  <2>5. CASE ~IsEmulated(res[u]) /\ u \in Inner
    <3>1. File(u, res[u]) = <<res[u], u>> /\ u \notin Cntrs
      BY <2>5, CntrDataAssumption DEF File
    <3>2. File(u, res[u]) # File(w, r)
      BY <2>3, <3>1
    <3> QED
      BY <2>2, <3>2, FileOK DEF LockInv, TypeOK
  <2>6. CASE ~IsEmulated(res[u]) /\ u \notin Inner
    <3>1. File(u, res[u]) = <<res[u], CntrOf[u]>>
      BY <2>6 DEF File
    <3>2. CASE res[u] = r /\ CntrOf[u] = CntrOf[w]
      BY <1>2, <2>1, <2>6, <3>2
    <3>3. CASE ~(res[u] = r /\ CntrOf[u] = CntrOf[w])
      <4>1. File(u, res[u]) # File(w, r)
        BY <2>3, <3>1, <3>3
      <4> QED
        BY <2>2, <4>1, FileOK DEF LockInv, TypeOK
    <3> QED
      BY <3>2, <3>3
  <2> QED
    BY <2>4, <2>5, <2>6
<1> QED
  BY <1>1, <1>2

(* The value of a pass-through file in a data store changes by the end of a *)
(* write or of a read that missed.                                          *)
LEMMA CachedData ==
    ASSUME LockInv, NEW u \in Users, StepOf(u),
           NEW k \in Cntrs, NEW r \in Resources, ~IsEmulated(r)
    PROVE  \/ data'[k][r] = data[k][r]
           \/ /\ CntrOf[u] = k /\ res[u] = r
              /\ \/ Store(u) /\ data'[k][r] = val[u]
                 \/ Keep(u) /\ Reads(u) /\ data'[k][r] = got[u]
<1>1. CASE ~(WritePrivate(u) \/ Store(u) \/ Keep(u))
  BY <1>1, ZenonT(30) DEF StepOf, Read, Write, Step, ReadCached, ReadMiss, WriteLocks,
           Acquire, Fetch, ReadAt, WriteRound, Push, Fails
<1>2. ASSUME NEW v, data' = [data EXCEPT ![CntrOf[u]][res[u]] = v]
      PROVE  \/ data'[k][r] = data[k][r]
             \/ CntrOf[u] = k /\ res[u] = r /\ data'[k][r] = v
  BY <1>2, CntrDataAssumption DEF LockInv, TypeOK
<1>3. CASE WritePrivate(u)
  BY <1>2, <1>3, Zenon DEF WritePrivate, SetData, LockInv, RequestOK
<1>4. CASE Store(u)
  BY <1>2, <1>4, Zenon DEF Store, SetData
<1>5. CASE Keep(u)
  <2>1. op[u] \in {"read", "write"} /\ (~Reads(u) => IsEmulated(res[u]))
    BY <1>5, Zenon DEF Keep, LockInv, RequestOK
  <2>2. data' = [data EXCEPT ![CntrOf[u]][res[u]] = IF Reads(u) THEN got[u] ELSE val[u]]
    BY <1>5, Zenon DEF Keep, SetData
  <2>3. \/ data'[k][r] = data[k][r]
        \/ CntrOf[u] = k /\ res[u] = r /\ data'[k][r] = IF Reads(u) THEN got[u] ELSE val[u]
    BY <1>2, <2>2, Zenon
  <2> QED
    BY <1>5, <2>1, <2>3, SMTT(30)
<1> QED
  BY <1>1, <1>3, <1>4, <1>5

LEMMA OtherGot ==
    ASSUME LockInv, NEW u \in Users, NEW w \in Users, w # u, StepOf(u)
    PROVE  /\ pc'[w] = pc[w] /\ op'[w] = op[w] /\ res'[w] = res[w] /\ val'[w] = val[w]
           /\ got'[w] = got[w]
<1>1. got'[w] = got[w]
  BY ZenonT(30) DEF LockInv, TypeOK, StepOf, Read, Write, Step, ReadCached, ReadMiss, WritePrivate,
              WriteLocks, Acquire, Fetch, Keep, ReadAt, WriteRound, Push, Store, Fails, Done
<1> QED
  BY <1>1, OtherRequests, Zenon DEF StepOf

(* A write between pushFile() and SetData() stays there until its Store.    *)
LEMMA StoringKept ==
    ASSUME LockInv, NEW u \in Users, StepOf(u), NEW k, NEW r, Storing(k, r)
    PROVE  Storing(k, r)' \/ (Store(u) /\ CntrOf[u] = k /\ res[u] = r)
<1>1. PICK w \in Users \ Inner : CntrOf[w] = k /\ pc[w] = "store" /\ res[w] = r
  BY DEF Storing
<1>2. CASE w # u
  BY <1>1, <1>2, OtherGot, Zenon DEF Storing
<1>3. CASE w = u
  <2>1. Store(u)
    BY <1>1, <1>3, ZenonT(30) DEF StepOf, Read, Write, Step, ReadCached, ReadMiss, WritePrivate,
              WriteLocks, Acquire, Fetch, Keep, ReadAt, WriteRound, Push, Store, Fails
  <2> QED
    BY <1>1, <1>3, <2>1
<1> QED
  BY <1>2, <1>3

(* With one writer per file, a push or a store is the only one.             *)
LEMMA OnlyWriter ==
    ASSUME OneWriter, LockInv, CacheInv, NEW u \in Users \ Inner, NEW w \in Users \ Inner,
           pc[u] \in {"push", "store"}, pc[w] \in {"push", "store"},
           CntrOf[u] = CntrOf[w], res[u] = res[w]
    PROVE  u = w
<1>1. /\ res[u] \in Resources /\ ~IsEmulated(res[u]) /\ val[u] \in Values /\ val[w] \in Values
  BY Zenon DEF LockInv, RequestOK
<1>2. <<u, "write", res[u], val[u]>> \in Uses /\ <<w, "write", res[u], val[w]>> \in Uses
  BY Zenon DEF CacheInv, Coherent
<1> QED
  BY <1>1, <1>2, Zenon DEF OneWriter

LEMMA NextCache ==
    ASSUME OneWriter, LockInv, CacheInv, NEW u \in Users, StepOf(u)
    PROVE  CacheInv'
<1>1. ASSUME NEW w \in Users \ Inner, NEW r \in Resources, ~IsEmulated(r)
      PROVE  \/ data'[CntrOf[w]][r] \in {None, fs'[File(w, r)]}
             \/ Storing(CntrOf[w], r)'
  <2>1. \/ data[CntrOf[w]][r] \in {None, fs[File(w, r)]}
        \/ Storing(CntrOf[w], r)
    BY <1>1, SMTT(30) DEF CacheInv, CacheCoherent, Storing
  <2>2. CntrOf[w] \in Cntrs /\ CntrOf[u] \in Cntrs
    BY CntrDataAssumption
  <2>3. CASE Push(u) /\ u \notin Inner /\ CntrOf[u] = CntrOf[w] /\ res[u] = r
    <3>1. pc'[u] = "store" /\ res'[u] = r
      BY <2>3 DEF Push, LockInv, TypeOK
    <3> QED
      BY <2>3, <3>1, SMTT(30) DEF Storing
  <2>4. CASE Store(u) /\ CntrOf[u] = CntrOf[w] /\ res[u] = r
    <3>1. data'[CntrOf[w]][r] = val[u]
      BY <2>2, <2>4, <1>1 DEF Store, SetData, LockInv, TypeOK
    <3>2. u \notin Inner /\ val[u] = fs[File(u, r)] /\ File(u, r) = File(w, r)
      BY <1>1, <2>4, ZenonT(30) DEF Store, CacheInv, Coherent, Kernel, File
    <3>3. fs' = fs
      BY <2>4, SMTT(30) DEF Store
    <3> QED
      BY <3>1, <3>2, <3>3, SMTT(30)
  <2>5. CASE Keep(u) /\ Reads(u) /\ CntrOf[u] = CntrOf[w] /\ res[u] = r
    <3>1. data'[CntrOf[w]][r] = got[u] /\ fs' = fs
      BY <2>2, <2>5, <1>1 DEF Keep, SetData, LockInv, TypeOK
    <3>2. u \notin Inner
      BY <1>1, <2>5, ZenonT(30) DEF Keep, LockInv, RequestOK
    <3>3. got[u] = fs[File(w, r)] \/ Storing(CntrOf[w], r)
      BY <1>1, <2>5, <3>2, ZenonT(30) DEF Keep, CacheInv, Coherent, Kernel, File
    <3>4. ~Store(u)
      BY <2>5 DEF Keep, Store
    <3> QED
      BY <3>1, <3>3, <3>4, StoringKept
  <2>6. CASE /\ ~(Push(u) /\ u \notin Inner /\ CntrOf[u] = CntrOf[w] /\ res[u] = r)
             /\ ~(Store(u) /\ CntrOf[u] = CntrOf[w] /\ res[u] = r)
             /\ ~(Keep(u) /\ Reads(u) /\ CntrOf[u] = CntrOf[w] /\ res[u] = r)
    <3>1. fs'[File(w, r)] = fs[File(w, r)]
      BY <1>1, <2>6, CachedFile, Zenon
    <3>2. data'[CntrOf[w]][r] = data[CntrOf[w]][r]
      <4>1. PICK k \in Cntrs : k = CntrOf[w]
        BY <2>2
      <4> QED
        <5>1. \/ data'[k][r] = data[k][r]
              \/ /\ CntrOf[u] = k /\ res[u] = r
                 /\ \/ Store(u) /\ data'[k][r] = val[u]
                    \/ Keep(u) /\ Reads(u) /\ data'[k][r] = got[u]
          BY <1>1, CachedData
        <5> QED
          BY <2>6, <4>1, <5>1
    <3>3. Storing(CntrOf[w], r) => Storing(CntrOf[w], r)'
      BY <2>6, StoringKept, Zenon
    <3> QED
      BY <2>1, <3>1, <3>2, <3>3, SMTT(30)
  <2> QED
    BY <2>3, <2>4, <2>5, <2>6, SMTT(30)
<1>2. ASSUME NEW w \in Users, w # u PROVE Coherent(w)'
  <2>1. /\ pc'[w] = pc[w] /\ op'[w] = op[w] /\ res'[w] = res[w] /\ val'[w] = val[w]
        /\ got'[w] = got[w]
    BY <1>2, OtherGot, Zenon
  <2>2. ASSUME pc[w] = "keep", Reads(w), ~IsEmulated(res[w])
        PROVE  got[w] = Kernel(w)' \/ Storing(CntrOf[w], res[w])'
    <3>1. w \notin Inner /\ res[w] \in Resources /\ lock[CntrOf[w]] = w
      BY <2>2, Zenon DEF LockInv, RequestOK, Locked
    <3>2. ~(Store(u) /\ CntrOf[u] = CntrOf[w])
      BY <3>1, CntrDataAssumption DEF Store
    <3>3. got[w] = Kernel(w) \/ Storing(CntrOf[w], res[w])
      BY <2>2, Zenon DEF CacheInv, Coherent
    <3>4. Storing(CntrOf[w], res[w]) => Storing(CntrOf[w], res[w])'
      <4>1. PICK r : r = res[w]
        OBVIOUS
      <4>2. Storing(CntrOf[w], r) => Storing(CntrOf[w], r)'
        BY <3>2, StoringKept, Zenon
      <4> QED
        BY <2>1, <4>1, <4>2 DEF Storing
    <3>5. CASE fs'[File(w, res[w])] = fs[File(w, res[w])]
      BY <2>1, <3>3, <3>4, <3>5 DEF Kernel
    <3>6. CASE Push(u) /\ u \notin Inner /\ CntrOf[u] = CntrOf[w] /\ res[u] = res[w]
      <4>1. pc'[u] = "store" /\ res'[u] = res[u]
        BY <3>6 DEF Push, LockInv, TypeOK
      <4> QED
        BY <2>1, <3>6, <4>1 DEF Storing
    <3> QED
      <4>1. PICK r \in Resources : r = res[w]
        BY <3>1
      <4> QED
        BY <2>2, <3>1, <3>5, <3>6, <4>1, CachedFile, Zenon
  <2>3. ASSUME pc[w] = "store" PROVE w \notin Inner /\ val[w] = Kernel(w)'
    <3>1. w \notin Inner /\ val[w] = Kernel(w)
      BY <2>3, Zenon DEF CacheInv, Coherent
    <3>2. res[w] \in Resources /\ ~IsEmulated(res[w])
      BY <2>3, Zenon DEF LockInv, RequestOK
    <3>3. ~(Push(u) /\ u \notin Inner /\ CntrOf[u] = CntrOf[w] /\ res[u] = res[w])
      BY <1>2, <2>3, <3>1, OnlyWriter, Zenon DEF Push
    <3>4. PICK r \in Resources : r = res[w]
      BY <3>2
    <3>5. fs'[File(w, r)] = fs[File(w, r)]
      BY <3>1, <3>2, <3>3, <3>4, CachedFile, Zenon
    <3> QED
      BY <2>1, <3>1, <3>4, <3>5, SMTT(30) DEF Kernel
  <2>4. pc[w] \in {"push", "store"} => <<w, "write", res[w], val[w]>> \in Uses
    BY Zenon DEF CacheInv, Coherent
  <2> QED
    BY <2>1, <2>2, <2>3, <2>4, SMTT(30) DEF Coherent
<1>3. Coherent(u)'
  <2>1. CASE Fetch(u)
    <3>1. /\ pc'[u] \in {"idle", "keep"} /\ fs' = fs
          /\ pc'[u] = "keep" => got'[u] = Kernel(u) /\ res'[u] = res[u]
      BY <2>1 DEF Fetch, Done, LockInv, TypeOK
    <3> QED
      BY <3>1 DEF Coherent, Kernel
  <2>2. CASE Push(u)
    <3>1. res[u] \in Resources /\ fs' = [fs EXCEPT ![File(u, res[u])] = val[u]] /\ pc[u] = "push"
      BY <2>2, Zenon DEF Push, WriteAt, LockInv, RequestOK
    <3>2. fs'[File(u, res[u])] = val[u]
      BY <3>1, FileOK DEF LockInv, TypeOK
    <3>3. <<u, "write", res[u], val[u]>> \in Uses
      BY <3>1, Zenon DEF CacheInv, Coherent
    <3>4. /\ pc'[u] \in {"idle", "store"}
          /\ pc'[u] = "store" => u \notin Inner /\ res'[u] = res[u] /\ val'[u] = val[u]
      BY <2>2 DEF Push, Done, LockInv, TypeOK
    <3> QED
      BY <3>2, <3>3, <3>4, ZenonT(30) DEF Coherent, Kernel
  <2>3. ASSUME NEW r \in Resources, NEW v \in Values, Write(u, r, v) PROVE Coherent(u)'
    BY <2>3 DEF Write, Coherent, LockInv, TypeOK
  <2>4. CASE /\ ~Fetch(u) /\ ~Push(u)
             /\ ~\E r \in Resources : \E v \in Values : Write(u, r, v)
    <3>1. pc'[u] \notin {"push", "store"} /\ (pc'[u] = "keep" => ~Reads(u)')
      BY <2>4, ZenonT(30) DEF LockInv, TypeOK, StepOf, Read, Step, ReadCached, ReadMiss,
              WritePrivate, WriteLocks, Acquire, Keep, ReadAt, WriteRound, Store, Fails, Done, RequestOK
    <3> QED
      BY <3>1, SMTT(30) DEF Coherent
  <2> QED
    BY <2>1, <2>2, <2>3, <2>4
<1> QED
  <2>1. CacheCoherent'
    BY <1>1, SMTT(30) DEF CacheCoherent, Storing
  <2> QED
    BY <1>2, <1>3, <2>1 DEF CacheInv

(* WriteWithNS pushes without the container's lock and caches with it, and  *)
(* ReadWithNS holds the lock from its miss on: as long as a pass-through    *)
(* file has one writer in the namespaces of the container, its cached value *)
(* is the kernel's whenever no write is under way, whoever reads it, writes *)
(* it from inner namespaces or fails.                                       *)
THEOREM CachesFollow == OneWriter => (Spec => []CacheCoherent)
<1> SUFFICES ASSUME OneWriter PROVE Spec => []CacheCoherent
  OBVIOUS
<1>1. Init => CacheInv
  <2> SUFFICES ASSUME Init PROVE CacheInv
    OBVIOUS
  <2>1. CacheCoherent
    BY CntrDataAssumption DEF Init, CacheCoherent
  <2>2. \A u \in Users : Coherent(u)
    BY DEF Init, Coherent
  <2> QED
    BY <2>1, <2>2 DEF CacheInv
<1>2. LockInv /\ CacheInv /\ [Next]_vars => CacheInv'
  <2> SUFFICES ASSUME LockInv, CacheInv, [Next]_vars PROVE CacheInv'
    OBVIOUS
  <2>1. CASE UNCHANGED vars
    <3>1. CacheCoherent'
      BY <2>1, SMTT(30) DEF vars, CacheInv, CacheCoherent
    <3>2. ASSUME NEW u \in Users PROVE Coherent(u)'
      BY <2>1, SMTT(30) DEF vars, CacheInv, Coherent, Storing, Kernel
    <3> QED
      BY <3>1, <3>2 DEF CacheInv
  <2> QED
    BY <2>1, NextCache DEF Next, StepOf
<1>3. CacheInv => CacheCoherent
  BY DEF CacheInv
<1> QED
  BY <1>1, <1>2, <1>3, InitLock, NextLock, PTL DEF Spec
=============================================================================
