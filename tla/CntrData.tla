------------------------------- MODULE CntrData -------------------------------
(***************************************************************************)
(* Reads and writes of the files sysbox-fs serves, from the handler down:   *)
(* the per-container data store (state/container.go, Data and SetData),     *)
(* readCntrData, writeCntrData, readFs and writeFs of the emulated files    *)
(* (handler/implementations/utils.go), and ReadWithNS and WriteWithNS of    *)
(* the pass-through files (passThrough.go).                                 *)
(*                                                                          *)
(* An emulated file has one value in the host's kernel and one in the data  *)
(* store of each container.  A pass-through file has one value in the       *)
(* kernel for each set of namespaces, which the agent reads and writes, and *)
(* the data store of the container caches that of the container's own       *)
(* namespaces.  Every request is at offset 0: file.go hands no offset to a  *)
(* write, and a value is shorter than the buffer of a read.  A value        *)
(* stands for its decimal digits and a newline.                             *)
(***************************************************************************)
EXTENDS Policies, FiniteSets

CONSTANTS Users,       \* goroutines that serve a fuse request
          Cntrs,       \* system containers
          CntrOf,      \* the container of the process behind each request
          Inner,       \* users whose process is in namespaces of its own
          Uses,        \* the <<user, operation, resource, value>> that occur
          Resources,   \* names of files
          Values,      \* values written
          HostValue,   \* the kernel's initial value of each resource
          None

retries == 5
BufSize == 65536

(* A value as bytes, with its newline; ReadAt() into a buffer of n bytes.   *)
Bytes(v) == 2 + Cardinality({d \in 1..8 : 10^d <= v})
Leading(v, n) == IF n < Bytes(v) THEN v \div 10^(Bytes(v) - 1 - n) ELSE v

ASSUME CntrDataAssumption ==
    /\ CntrOf \in [Users -> Cntrs]
    /\ Inner \subseteq Users /\ Inner \cap Cntrs = {}
    /\ Values \subseteq Nat
    /\ HostValue \in [Resources -> Values]
    /\ None \notin Values /\ None \notin Users

ASSUME BytesAssumption == \A v \in Values : Bytes(v) \in 2..BufSize

ASSUME UsesAssumption ==
    Uses \subseteq Users \X {"read", "write"} \X Resources \X (Values \cup {None})

(* At most one process in the namespaces of a container writes a file.      *)
OneWriter ==
    \A w1, w2 \in Users \ Inner, r \in Resources, v1, v2 \in Values :
        /\ <<w1, "write", r, v1>> \in Uses /\ <<w2, "write", r, v2>> \in Uses
        /\ CntrOf[w1] = CntrOf[w2] /\ ~IsEmulated(r)
        => w1 = w2

VARIABLES fs,      \* the kernel's value of each file
          data,    \* container.dataStore
          lock,    \* container.extLock: its holder
          mutex,   \* EmuResource.Mutex: its holder
          pc,      \* per user: where it is
          op, res, val,  \* per user: its request
          got,     \* per user: the value read from the kernel
          i, size  \* per user: writeFs's i and len(currData)

request == <<op, res, val>>
vars == <<fs, data, lock, mutex, pc, op, res, val, got, i, size>>

Steps == {"idle", "enter", "queue", "fetch", "read", "write", "keep", "push",
          "store"}

(* The kernel's file behind resource r for user u.                          *)
File(u, r) == IF IsEmulated(r) THEN <<r>>
              ELSE <<r, IF u \in Inner THEN u ELSE CntrOf[u]>>
Files == {File(u, r) : u \in Users, r \in Resources}

Data(u) == data[CntrOf[u]][res[u]]
Kernel(u) == fs[File(u, res[u])]
Reads(u) == op[u] = "read"

Goto(u, step) == pc' = [pc EXCEPT ![u] = step]
Ask(u, o, r, v) == /\ op' = [op EXCEPT ![u] = o]
                   /\ res' = [res EXCEPT ![u] = r]
                   /\ val' = [val EXCEPT ![u] = v]
Done(u) == /\ Goto(u, "idle")
           /\ Ask(u, "none", None, None)
           /\ got' = [got EXCEPT ![u] = None]
           /\ i' = [i EXCEPT ![u] = 0]
           /\ size' = [size EXCEPT ![u] = BufSize]
SetData(u, v) == data' = [data EXCEPT ![CntrOf[u]][res[u]] = v]
WriteAt(u) == fs' = [fs EXCEPT ![File(u, res[u])] = val[u]]

Lock(u) == lock[CntrOf[u]] = None /\ lock' = [lock EXCEPT ![CntrOf[u]] = u]
Unlock(u) == lock' = [c \in Cntrs |-> IF lock[c] = u THEN None ELSE lock[c]]
LockMutex(u) == mutex[res[u]] = None /\ mutex' = [mutex EXCEPT ![res[u]] = u]
UnlockMutex(u) ==
    mutex' = [r \in Resources |-> IF mutex[r] = u THEN None ELSE mutex[r]]
-----------------------------------------------------------------------------
Init == /\ fs = [f \in Files |-> HostValue[f[1]]]
        /\ data = [c \in Cntrs |-> [r \in Resources |-> None]]
        /\ lock = [c \in Cntrs |-> None]
        /\ mutex = [r \in Resources |-> None]
        /\ pc = [u \in Users |-> "idle"]
        /\ op = [u \in Users |-> "none"]
        /\ res = [u \in Users |-> None]
        /\ val = [u \in Users |-> None]
        /\ got = [u \in Users |-> None]
        /\ i = [u \in Users |-> 0]
        /\ size = [u \in Users |-> BufSize]

(* Read() of the handler: readCntrData, or ReadWithNS, which leaves the     *)
(* data store out for a process in namespaces of its own.                   *)
Read(u, r) ==
    /\ pc[u] = "idle" /\ <<u, "read", r, None>> \in Uses
    /\ Goto(u, IF u \in Inner /\ ~IsEmulated(r) THEN "fetch" ELSE "enter")
    /\ Ask(u, "read", r, None)
    /\ UNCHANGED <<fs, data, lock, mutex, got, i, size>>

(* Write() of the handler, past its checks of the value.                    *)
Write(u, r, v) ==
    /\ pc[u] = "idle" /\ <<u, "write", r, v>> \in Uses
    /\ IsEmulated(r) => Accepts(r, v)
    /\ Goto(u, IF IsEmulated(r) THEN "enter" ELSE "push")
    /\ Ask(u, "write", r, v)
    /\ UNCHANGED <<fs, data, lock, mutex, got, i, size>>

(* cntr.Lock(), Data() and, when the value is there, cntr.Unlock().         *)
ReadCached(u) == /\ pc[u] = "enter" /\ Reads(u)
                 /\ lock[CntrOf[u]] = None
                 /\ Data(u) # None
                 /\ Done(u)
                 /\ UNCHANGED <<fs, data, lock, mutex>>

ReadMiss(u) == /\ pc[u] = "enter" /\ Reads(u)
               /\ Lock(u)
               /\ Data(u) = None
               /\ Goto(u, IF IsEmulated(res[u]) THEN "queue" ELSE "fetch")
               /\ UNCHANGED <<fs, data, mutex, request, got, i, size>>

(* Slip: the value is kept without the container's lock.                    *)
WritePrivateUnlocked(u) == /\ pc[u] = "enter" /\ ~Reads(u)
                           /\ ~Pushes(res[u])
                           /\ SetData(u, val[u])
                           /\ Done(u)
                           /\ UNCHANGED <<fs, lock, mutex>>

(* writeCntrData for a resource that never goes to the host: writeFs with a *)
(* nil wrCondition returns at once.                                         *)
WritePrivate(u) == /\ pc[u] = "enter" /\ ~Reads(u)
                   /\ lock[CntrOf[u]] = None
                   /\ ~Pushes(res[u])
                   /\ SetData(u, val[u])
                   /\ Done(u)
                   /\ UNCHANGED <<fs, lock, mutex>>

WriteLocks(u) == /\ pc[u] = "enter" /\ ~Reads(u)
                 /\ Lock(u)
                 /\ Pushes(res[u])
                 /\ Goto(u, "queue")
                 /\ UNCHANGED <<fs, data, mutex, request, got, i, size>>

(* Slip: the mutex of the resource is not waited for.                       *)
AcquireNone(u) == /\ pc[u] = "queue"
                  /\ Goto(u, IF Reads(u) THEN "fetch" ELSE "read")
                  /\ UNCHANGED <<fs, data, lock, mutex, request, got, i, size>>

(* resourceMutex.Lock() of readFs and writeFs.                              *)
Acquire(u) == /\ pc[u] = "queue"
              /\ LockMutex(u)
              /\ Goto(u, IF Reads(u) THEN "fetch" ELSE "read")
              /\ UNCHANGED <<fs, data, lock, request, got, i, size>>

(* readFs and fetchFile.  Only a process in the container's own namespaces  *)
(* goes on to keep what a pass-through file gave.                           *)
Fetch(u) ==
    /\ pc[u] = "fetch"
    /\ UnlockMutex(u)
    /\ IF u \in Inner /\ ~IsEmulated(res[u])
       THEN Done(u)
       ELSE /\ Goto(u, "keep")
            /\ got' = [got EXCEPT ![u] = Kernel(u)]
            /\ UNCHANGED <<request, i, size>>
    /\ UNCHANGED <<fs, data, lock>>

(* SetData() of readCntrData, writeCntrData and ReadWithNS, and the return. *)
Keep(u) == /\ pc[u] = "keep"
           /\ SetData(u, IF Reads(u) THEN got[u] ELSE val[u])
           /\ Unlock(u)
           /\ Done(u)
           /\ UNCHANGED <<fs, mutex>>
-----------------------------------------------------------------------------
(* A round of writeFs up to its decision.  "currData = currData[0:sz]"      *)
(* leaves the next round a buffer as short as this round's value.           *)
ReadAt(u) ==
    LET v == Kernel(u)
        n == IF size[u] < Bytes(v) THEN size[u] ELSE Bytes(v)
        curr == Leading(v, n)
        same == n = Bytes(v) /\ v = val[u]
    IN  /\ pc[u] = "read"
        /\ size' = [size EXCEPT ![u] = n]
        /\ IF ~same /\ WrCondition(res[u], curr, val[u])
           THEN Goto(u, "write") /\ UNCHANGED mutex
           ELSE Goto(u, "keep") /\ UnlockMutex(u)
        /\ UNCHANGED <<fs, data, lock, request, got, i>>

(* Slip: the rounds are counted one too far.                                *)
WriteRoundExtra(u) == /\ pc[u] = "write"
                      /\ WriteAt(u)
                      /\ i' = [i EXCEPT ![u] = @ + 1]
                      /\ IF i[u] < retries
                         THEN Goto(u, "read") /\ UNCHANGED mutex
                         ELSE Goto(u, "keep") /\ UnlockMutex(u)
                      /\ UNCHANGED <<data, lock, request, got, size>>

(* The WriteAt() that ends the round.                                       *)
WriteRound(u) == /\ pc[u] = "write"
                 /\ WriteAt(u)
                 /\ i' = [i EXCEPT ![u] = @ + 1]
                 /\ IF i[u] + 1 < retries
                    THEN Goto(u, "read") /\ UNCHANGED mutex
                    ELSE Goto(u, "keep") /\ UnlockMutex(u)
                 /\ UNCHANGED <<data, lock, request, got, size>>
-----------------------------------------------------------------------------
(* Slip: the cache is left as it was.                                       *)
PushOnly(u) == /\ pc[u] = "push"
               /\ WriteAt(u)
               /\ Done(u)
               /\ UNCHANGED <<data, lock, mutex>>

(* WriteWithNS: pushFile() first, with no lock held.                        *)
Push(u) == /\ pc[u] = "push"
           /\ WriteAt(u)
           /\ IF u \in Inner THEN Done(u)
              ELSE Goto(u, "store") /\ UNCHANGED <<request, got, i, size>>
           /\ UNCHANGED <<data, lock, mutex>>

(* cntr.Lock(), SetData(), cntr.Unlock() of WriteWithNS.                    *)
Store(u) == /\ pc[u] = "store"
            /\ lock[CntrOf[u]] = None
            /\ SetData(u, val[u])
            /\ Done(u)
            /\ UNCHANGED <<fs, lock, mutex>>

(* Slip: the error path of ReadWithNS returns without cntr.Unlock().        *)
FailsLocked(u) == /\ pc[u] \in {"fetch", "read", "write", "push"}
                  /\ UnlockMutex(u)
                  /\ Done(u)
                  /\ UNCHANGED <<fs, data, lock>>

(* Slip: the value is kept although the host did not take it.               *)
FailsKept(u) == /\ pc[u] \in {"fetch", "read", "write", "push"}
                /\ UnlockMutex(u)
                /\ Unlock(u)
                /\ Done(u)
                /\ IF pc[u] = "write" THEN SetData(u, val[u]) ELSE UNCHANGED data
                /\ UNCHANGED fs

(* The file cannot be opened, read or written, or the value cannot be       *)
(* parsed, or the agent fails: the request ends with an error.              *)
Fails(u) == /\ pc[u] \in {"fetch", "read", "write", "push"}
            /\ UnlockMutex(u)
            /\ Unlock(u)
            /\ Done(u)
            /\ UNCHANGED <<fs, data>>

Step(u) == \/ ReadCached(u) \/ ReadMiss(u) \/ WritePrivate(u) \/ WriteLocks(u)
           \/ Acquire(u) \/ Fetch(u) \/ Keep(u)
           \/ ReadAt(u) \/ WriteRound(u) \/ Push(u) \/ Store(u) \/ Fails(u)

Next == \E u \in Users :
            \/ \E r \in Resources : Read(u, r) \/ \E v \in Values : Write(u, r, v)
            \/ Step(u)

Spec == Init /\ [][Next]_vars
-----------------------------------------------------------------------------
(* Every variable has its type, and writeFs stays within its rounds and its *)
(* buffer.                                                                  *)
TypeOK == /\ fs \in [Files -> Values]
          /\ data \in [Cntrs -> [Resources -> Values \cup {None}]]
          /\ lock \in [Cntrs -> Users \cup {None}]
          /\ mutex \in [Resources -> Users \cup {None}]
          /\ pc \in [Users -> Steps]
          /\ op \in [Users -> {"none", "read", "write"}]
          /\ res \in [Users -> Resources \cup {None}]
          /\ val \in [Users -> Values \cup {None}]
          /\ got \in [Users -> Values \cup {None}]
          /\ i \in [Users -> 0..retries]
          /\ size \in [Users -> 2..BufSize]

(* writeMaxIntToFs: no container is ever shown a limit above the one the    *)
(* kernel applies, whichever containers write it and in whatever order.     *)
HostCoversCaches ==
    \A c \in Cntrs : \A r \in {s \in Resources : Raises(s)} :
        data[c][r] # None => data[c][r] <= fs[<<r>>]

(* The kernel's value of an emulated file is left alone when the handler    *)
(* keeps it private, is never lowered when it takes the maximum, and is     *)
(* never switched off by writeTcpLiberal.                                   *)
HostOnlyRaised ==
    [][\A r \in {s \in Resources : IsEmulated(s)} :
           LET v == fs[<<r>>]
               w == fs'[<<r>>]
           IN  w # v => \/ Raises(r) /\ w > v
                        \/ Emulated[r].push = "writeTcpLiberal" /\ w # 0
                        \/ Emulated[r].push = "writeToFs"]_vars

(* Once a container has a value in its data store only a write of that      *)
(* container replaces it: a read that missed it puts nothing older back.    *)
KeptUntilWritten ==
    [][\A c \in Cntrs, r \in Resources :
           data[c][r] # None /\ data'[c][r] # data[c][r] =>
               \E u \in Users : /\ CntrOf[u] = c
                                /\ op[u] = "write" /\ res[u] = r
                                /\ val[u] = data'[c][r]]_vars

(* The cached value of a pass-through file is the kernel's whenever no      *)
(* write is between pushFile() and SetData().                               *)
CacheCoherent ==
    \A u \in Users \ Inner : \A r \in {s \in Resources : ~IsEmulated(s)} :
        \/ data[CntrOf[u]][r] \in {None, fs[File(u, r)]}
        \/ \E w \in Users \ Inner : /\ CntrOf[w] = CntrOf[u]
                                    /\ pc[w] = "store" /\ res[w] = r

(* No way out of a request, an error included, keeps the container's lock or *)
(* the resource's mutex, and the mutex is only held below the lock: whoever *)
(* holds one is in a step that waits for nobody above it, so no two         *)
(* requests wait for each other.                                            *)
HoldersRun ==
    /\ \A c \in Cntrs : lock[c] # None =>
           /\ CntrOf[lock[c]] = c
           /\ pc[lock[c]] \in {"queue", "fetch", "read", "write", "keep"}
    /\ \A r \in Resources : mutex[r] # None =>
           /\ res[mutex[r]] = r
           /\ lock[CntrOf[mutex[r]]] = mutex[r]
           /\ pc[mutex[r]] \in {"fetch", "read", "write"}
=============================================================================
