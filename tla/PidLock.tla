------------------------------- MODULE PidLock -------------------------------
(***************************************************************************)
(* What the seccomp tracer asks of its pid tracker (seccomp/tracer.go, the  *)
(* comment in process()): "for a given pid, we only process one syscall at  *)
(* a time.  Syscalls for different pids are processed in parallel."  One    *)
(* lock per pid, no table, no reference counts.                             *)
(***************************************************************************)
CONSTANTS Handlers,     \* goroutines running syscallTracer.process
          Pids,         \* thread ids that raise notifications
          NoPid

VARIABLES waiting,      \* [Handlers -> Pids \cup {NoPid}]: pid a handler waits for
          holding       \* [Handlers -> Pids \cup {NoPid}]: pid a handler has locked

lockVars == <<waiting, holding>>

LockInit == /\ waiting = [h \in Handlers |-> NoPid]
            /\ holding = [h \in Handlers |-> NoPid]

Request(h, p) == /\ waiting[h] = NoPid
                 /\ holding[h] = NoPid
                 /\ waiting' = [waiting EXCEPT ![h] = p]
                 /\ UNCHANGED holding

Grant(h) == /\ waiting[h] # NoPid
            /\ \A g \in Handlers : holding[g] # waiting[h]
            /\ holding' = [holding EXCEPT ![h] = waiting[h]]
            /\ waiting' = [waiting EXCEPT ![h] = NoPid]

Release(h) == /\ holding[h] # NoPid
              /\ holding' = [holding EXCEPT ![h] = NoPid]
              /\ UNCHANGED waiting

LockNext == \E h \in Handlers : \/ \E p \in Pids : Request(h, p)
                                \/ Grant(h)
                                \/ Release(h)

LockSpec == LockInit /\ [][LockNext]_lockVars
=============================================================================
