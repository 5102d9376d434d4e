---------------------------- MODULE SeccompSession ----------------------------
(***************************************************************************)
(* The sessions of the syscall tracer (seccomp/tracer.go): connHandler, one *)
(* goroutine per process that hands over its seccomp-notify descriptor,     *)
(* with seccompSessionAdd, seccompSessionDelete and seccompSessionPidfd,    *)
(* under both policies of --seccomp-fd-release.                             *)
(*                                                                          *)
(* Descriptors are numbers, handed out lowest first and reused once closed; *)
(* fdTable says what a number means now.  A poll() is woken by what its     *)
(* numbers meant when it was called and then reports on what they mean now. *)
(* What a notification asks for is handled by process(), in a goroutine of  *)
(* its own.                                                                 *)
(***************************************************************************)
EXTENDS Integers, FiniteSets, FiniteSetsExt

CONSTANTS Sessions,   \* processes that open a seccomp session
          Cntrs,      \* containers
          CntrOf,     \* the container of a session
          InitOf,     \* the session of a container's init process
          PidOf,      \* the pid of a session's process
          Fds,        \* descriptor numbers (positive integers)
          InitPidFd,  \* container.initPidFd, set by ContainerRegister
          Opens(_, _) \* the sessions opened under a policy and on a kernel

Scmp(s) == <<"seccomp", s>>       \* the notify descriptor of s
Proc(s) == <<"pidfd", s>>         \* a pidfd of the process of s
Free == <<"free", 0>>
Stdin == <<"stdin", 0>>           \* number 0, the standard input of the daemon
NoFd == 0

ASSUME SeccompSessionAssumption ==
    /\ Fds \subseteq Nat \ {0} /\ IsFiniteSet(Fds)
    /\ CntrOf \in [Sessions -> Cntrs] /\ InitOf \in [Cntrs -> Sessions]
    /\ \A c \in Cntrs : CntrOf[InitOf[c]] = c
    /\ InitPidFd \in [Cntrs -> Fds]
    /\ \A c, d \in Cntrs : InitPidFd[c] = InitPidFd[d] => c = d
    /\ \A b, k \in BOOLEAN : Opens(b, k) \subseteq Sessions

VARIABLES contExit,     \* closeSeccompOnContExit, the policy 'Cntr-Exit'
          unusedNotif,  \* the kernel reports the end of a filter's last user
          alive,        \* the processes that run, at first the inits
          known,        \* containers the container state service knows
          notif,        \* tracees whose trapped syscall waits to be received
          fdTable,
          pc, fd, pidfd,        \* connHandler: step, its two descriptors
          watch, watchPid,      \* what its poll() looks at
          toClose,              \* seccompSessionDelete's closeFds
          cmap,                 \* seccompSessionCMap, as a set of sessions
          pidToCont             \* the pids of pidToContMap

env == <<contExit, unusedNotif, alive, known>>
own == <<fd, pidfd>>
polled == <<watch, watchPid>>
tables == <<cmap, pidToCont>>
vars == <<env, notif, fdTable, pc, own, polled, toClose, tables>>

Room == \E f \in Fds : fdTable[f] = Free
NewFd == Min({f \in Fds : fdTable[f] = Free})
Means(f) == IF f = NoFd THEN Stdin ELSE fdTable[f]
Goto(s, step) == pc' = [pc EXCEPT ![s] = step]

Init == /\ contExit \in BOOLEAN
        /\ unusedNotif \in BOOLEAN
        /\ alive = {InitOf[c] : c \in Cntrs}
        /\ known = Cntrs
        /\ notif = {}
        /\ fdTable = [f \in Fds |-> IF \E c \in Cntrs : InitPidFd[c] = f
                                    THEN Proc(InitOf[CHOOSE c \in Cntrs : InitPidFd[c] = f])
                                    ELSE Free]
        /\ pc = [s \in Sessions |-> "none"]
        /\ fd = [s \in Sessions |-> NoFd] /\ pidfd = [s \in Sessions |-> NoFd]
        /\ watch = [s \in Sessions |-> Free] /\ watchPid = [s \in Sessions |-> Free]
        /\ toClose = [s \in Sessions |-> {}]
        /\ cmap = {} /\ pidToCont = {}
-----------------------------------------------------------------------------
(* RecvSeccompInitMsg() and the ack: the init, or a process that starts in  *)
(* a running container; without room for the descriptor there is an error   *)
(* and no session.  A pid is one process at a time and may be used again.   *)
Connect(s) ==
    /\ pc[s] = "none" /\ s \in Opens(contExit, unusedNotif) /\ InitOf[CntrOf[s]] \in alive /\ Room
    /\ \A q \in alive \ {s} : PidOf[q] # PidOf[s]
    /\ alive' = alive \cup {s}
    /\ fdTable' = [fdTable EXCEPT ![NewFd] = Scmp(s)]
    /\ fd' = [fd EXCEPT ![s] = NewFd]
    /\ Goto(s, "pidfd")
    /\ UNCHANGED <<contExit, unusedNotif, known, polled, tables, notif, pidfd, toClose>>

(* Slip: 'Proc-Exit' shares the container's pidfd too.                      *)
PidfdShared(s) ==
    /\ pc[s] = "pidfd"
    /\ pidfd' = [pidfd EXCEPT ![s] = IF ~unusedNotif /\ CntrOf[s] \in known
                                     THEN InitPidFd[CntrOf[s]] ELSE NoFd]
    /\ Goto(s, "add")
    /\ UNCHANGED <<env, polled, tables, notif, fd, fdTable, toClose>>

(* seccompSessionPidfd(): none needed, the container's, or one of its own.  *)
Pidfd(s) ==
    LET opens == ~unusedNotif /\ ~contExit /\ s \in alive /\ Room IN
    /\ pc[s] = "pidfd"
    /\ fdTable' = IF opens THEN [fdTable EXCEPT ![NewFd] = Proc(s)] ELSE fdTable
    /\ pidfd' = [pidfd EXCEPT ![s] =
                    IF opens THEN NewFd
                    ELSE IF ~unusedNotif /\ contExit /\ CntrOf[s] \in known
                         THEN InitPidFd[CntrOf[s]] ELSE NoFd]
    /\ Goto(s, "add")
    /\ UNCHANGED <<env, polled, tables, notif, fd, toClose>>

(* seccompSessionAdd(): a pid that is still registered is not added again.  *)
Add(s) ==
    /\ pc[s] = "add"
    /\ IF contExit /\ PidOf[s] \notin pidToCont
       THEN /\ cmap' = cmap \cup {s}
            /\ pidToCont' = pidToCont \cup {PidOf[s]}
       ELSE UNCHANGED <<tables>>
    /\ Goto(s, "loop")
    /\ UNCHANGED <<env, own, polled, notif, fdTable, toClose>>

(* A pidfd is readable once its process is gone, a seccomp descriptor has a *)
(* notification or, where the kernel tells, no user left; a closed number   *)
(* is reported at once, and the standard input is taken as readable.        *)
Event(m) == \/ m \in {Free, Stdin}
            \/ \E q \in Sessions \ alive : m = Proc(q) \/ (unusedNotif /\ m = Scmp(q))
            \/ \E q \in notif : m = Scmp(q)

(* What a scan of the two numbers finds: POLLIN on the second, POLLIN on    *)
(* the first, anything at all.                                              *)
PidIn(s) == /\ ~unusedNotif
            /\ Means(pidfd[s]) \in {Stdin} \cup {Proc(q) : q \in Sessions \ alive}
NotifIn(s) == \E q \in notif : fdTable[fd[s]] = Scmp(q)
Found(s) == Event(fdTable[fd[s]]) \/ (~unusedNotif /\ Event(Means(pidfd[s])))

(* unix.Poll() finds nothing and blocks.                                    *)
PollBlocks(s) ==
    /\ pc[s] = "loop" /\ ~Found(s)
    /\ watch' = [watch EXCEPT ![s] = fdTable[fd[s]]]
    /\ watchPid' = [watchPid EXCEPT ![s] = IF unusedNotif THEN Free ELSE Means(pidfd[s])]
    /\ Goto(s, "poll")
    /\ UNCHANGED <<env, own, tables, notif, fdTable, toClose>>

(* It returns from its first scan, or from one after it was woken.          *)
PollReturns(s) ==
    /\ \/ pc[s] = "loop"
       \/ pc[s] = "poll" /\ (Event(watch[s]) \/ (~unusedNotif /\ Event(watchPid[s])))
    /\ Found(s)
    /\ watch' = [watch EXCEPT ![s] = Free]
    /\ watchPid' = [watchPid EXCEPT ![s] = Free]

(* POLLIN on the seccomp descriptor, not on the pidfd: a notification.      *)
PollNotif(s) ==
    /\ PollReturns(s) /\ NotifIn(s) /\ ~PidIn(s)
    /\ Goto(s, "receive")
    /\ UNCHANGED <<env, own, tables, notif, fdTable, toClose>>

(* Slip: the end of the process does not end the loop.                      *)
PollEndLoops(s) ==
    /\ PollReturns(s) /\ (PidIn(s) \/ ~NotifIn(s))
    /\ Goto(s, IF PidIn(s) THEN "loop" ELSE "delete")
    /\ UNCHANGED <<env, own, tables, notif, fdTable, toClose>>

(* Anything else ends the loop.                                             *)
PollEnd(s) ==
    /\ PollReturns(s) /\ (PidIn(s) \/ ~NotifIn(s))
    /\ Goto(s, "delete")
    /\ UNCHANGED <<env, own, tables, notif, fdTable, toClose>>

(* Slip: the loop is left after the first notification.                     *)
ReceiveOnce(s) ==
    /\ pc[s] = "receive"
    /\ notif' = {q \in notif : fdTable[fd[s]] # Scmp(q)}
    /\ Goto(s, IF contExit THEN "loop" ELSE "delete")
    /\ UNCHANGED <<env, own, polled, tables, fdTable, toClose>>

(* NotifReceive() on the number, then "go t.process()"; an error is no      *)
(* reason to leave the loop.                                                *)
Receive(s) ==
    /\ pc[s] = "receive"
    /\ notif' = {q \in notif : fdTable[fd[s]] # Scmp(q)}
    /\ Goto(s, "loop")
    /\ UNCHANGED <<env, own, polled, tables, fdTable, toClose>>

(* seccompSessionDelete(), the part under the lock.  'Cntr-Exit': nothing   *)
(* but the end of init, or of the container, ends all sessions of the       *)
(* container.  'Proc-Exit': the session's own descriptors are closed.       *)
EndsAll(s) == CntrOf[s] \notin known \/ PidOf[s] = PidOf[InitOf[CntrOf[s]]]
Listed(s) == {q \in cmap : CntrOf[q] = CntrOf[s]}
Own(s) == {fd[s], pidfd[s]} \ {NoFd}

DeleteWith(s, all, closed) ==
    /\ pc[s] = "delete"
    /\ IF contExit
       THEN /\ toClose' = [toClose EXCEPT ![s] = IF all THEN {fd[q] : q \in Listed(s)} ELSE {}]
            /\ cmap' = IF all THEN cmap \ Listed(s) ELSE cmap
            /\ pidToCont' = pidToCont \ {PidOf[s]}
       ELSE /\ toClose' = [toClose EXCEPT ![s] = closed]
            /\ UNCHANGED <<tables>>
    /\ Goto(s, "close")
    /\ UNCHANGED <<env, own, polled, notif, fdTable>>

(* Slip: the pidfd is left open.                                            *)
DeleteLeavesPidfd(s) == DeleteWith(s, EndsAll(s), {fd[s]})

(* Slip: the end of any session closes all of the container's.              *)
DeleteAlwaysAll(s) == DeleteWith(s, TRUE, Own(s))

Delete(s) == DeleteWith(s, EndsAll(s), Own(s))

(* ... and the closes after it, one at a time.                              *)
Close(s) ==
    /\ pc[s] = "close" /\ toClose[s] # {}
    /\ \E f \in toClose[s] : /\ fdTable' = [fdTable EXCEPT ![f] = Free]
                             /\ toClose' = [toClose EXCEPT ![s] = @ \ {f}]
    /\ UNCHANGED <<env, own, polled, tables, notif, pc>>

(* Slip: the session is deleted inside the loop.                            *)
ReturnLoops(s) ==
    /\ pc[s] = "close" /\ toClose[s] = {}
    /\ Goto(s, "loop")
    /\ UNCHANGED <<env, own, polled, tables, notif, fdTable, toClose>>

(* connHandler returns.                                                     *)
Return(s) ==
    /\ pc[s] = "close" /\ toClose[s] = {}
    /\ Goto(s, "done")
    /\ UNCHANGED <<env, own, polled, tables, notif, fdTable, toClose>>

Handler(s) == \/ Pidfd(s) \/ Add(s) \/ PollBlocks(s) \/ PollNotif(s) \/ PollEnd(s)
              \/ Receive(s) \/ Delete(s) \/ Close(s) \/ Return(s)
-----------------------------------------------------------------------------
(* A tracee makes a monitored syscall.                                      *)
Trap(s) ==
    /\ s \in alive \ notif /\ pc[s] # "none"
    /\ notif' = notif \cup {s}
    /\ UNCHANGED <<env, fdTable, pc, own, polled, toClose, tables>>

(* A process that is not an init exits; with an init its container exits.   *)
Exit(s) ==
    LET dead == IF s = InitOf[CntrOf[s]] THEN {q \in Sessions : CntrOf[q] = CntrOf[s]}
                ELSE {s} IN
    /\ s \in alive
    /\ alive' = alive \ dead
    /\ notif' = notif \ dead
    /\ UNCHANGED <<contExit, unusedNotif, known, fdTable, pc, own, polled, toClose, tables>>

(* ContainerUnregister(): after the container exited.                       *)
Unregister(c) ==
    /\ c \in known /\ InitOf[c] \notin alive
    /\ known' = known \ {c}
    /\ fdTable' = [fdTable EXCEPT ![InitPidFd[c]] = Free]
    /\ UNCHANGED <<contExit, unusedNotif, alive, notif, pc, own, polled, toClose, tables>>

(* (Under 'Cntr-Exit' a handler may wait for ever on a number that was      *)
(* closed and reused.)                                                      *)
AllOver == /\ alive = {} /\ known = {}
           /\ contExit \/ \A s \in Sessions : pc[s] \in {"none", "done"}
           /\ UNCHANGED vars

Next == \/ \E s \in Sessions : Connect(s) \/ Handler(s) \/ Trap(s) \/ Exit(s)
        \/ \E c \in Cntrs : Unregister(c)
        \/ AllOver

(* Goroutines that can run do; processes may live for ever.                 *)
Spec == Init /\ [][Next]_vars /\ \A s \in Sessions : WF_vars(Handler(s))
-----------------------------------------------------------------------------
(* Under 'Proc-Exit' a handler only polls and receives on its own process's *)
(* descriptor, never on another session that got the same number after a    *)
(* close.                                                                   *)
FdStillOwn == ~contExit =>
    \A s \in Sessions : pc[s] \in {"pidfd", "add", "loop", "poll", "receive", "delete"}
                            => fdTable[fd[s]] = Scmp(s)

(* A handler closes no descriptor twice and none of another container: each *)
(* number it is going to close still means a session, or a process, of its  *)
(* own container.                                                           *)
ClosesOwn ==
    \A s \in Sessions : \A f \in toClose[s] :
        \E q \in Sessions : /\ CntrOf[q] = CntrOf[s]
                            /\ fdTable[f] \in {Scmp(q), Proc(q)}

(* tracer.go, seccompSessionPidfd, 'Cntr-Exit': "we ensure that all the     *)
(* seccomp sessions are kept alive until the container's initPid dies": the *)
(* descriptor of a session, even one whose process exited, stays open while *)
(* the container's init process lives.                                      *)
KeptUntilInitDies == contExit =>
    \A s \in Sessions : InitOf[CntrOf[s]] \in alive /\ pc[s] # "none"
                            => fdTable[fd[s]] = Scmp(s)

(* tracer.go, seccompSessionAdd: the descriptors of a container are         *)
(* collected "so we can release them together when the container dies":     *)
(* under 'Proc-Exit', once the container is gone and its sessions have      *)
(* ended, none is open.                                                     *)
FdsReleased == ~contExit =>
    \A c \in Cntrs :
        (c \notin known /\ \A s \in Sessions : CntrOf[s] = c => pc[s] \in {"none", "done"})
            => \A s \in Sessions : CntrOf[s] = c =>
                    \A f \in Fds : fdTable[f] \notin {Scmp(s), Proc(s)}

ProcExitSessions == UNION {Opens(FALSE, k) : k \in BOOLEAN}

(* Under 'Proc-Exit' a trapped syscall is received, or its process goes     *)
(* away.                                                                    *)
NotifReceived == \A s \in ProcExitSessions : s \in notif /\ ~contExit ~> s \notin notif

(* Under 'Proc-Exit' a session ends after its process did.                  *)
SessionEnds ==
    \A s \in ProcExitSessions : s \notin alive /\ pc[s] # "none" /\ ~contExit ~> pc[s] = "done"
=============================================================================
