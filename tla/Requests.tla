------------------------------ MODULE Requests ------------------------------
(***************************************************************************)
(* The two ways a container process makes sysbox-fs act, trapped syscalls   *)
(* (Tracer) and file operations (Fuse), with the nsenter agents both use.   *)
(***************************************************************************)
EXTENDS Tracer, Fuse

vars == <<agentVars, tracerVars, fuseVars>>

CONSTANTS Calls(_, _),  \* per view, the syscalls a tracee may issue,
          Quota(_),     \* how many are issued at all
          Parsers(_)    \* and the memory parsers sysbox-fs may have elected

ASSUME RequestsAssumption == Clients = Tracees \cup Readers /\ Tracees \cap Readers = {}

(* Agents of syscalls mount nothing, so that syscalls and file operations   *)
(* share no state: a behaviour has either, as its view says.                *)
Init == /\ InitAgent /\ InitTracer /\ InitFuse
        /\ left = Quota(view)
        /\ parser \in Parsers(view)
        /\ left > 0 => ~readOnly

SyscallSteps ==
    \E t \in Tracees : /\ ~down
                       /\ Process(t) \/ AfterDecision(t) \/ Interrupt(t) \/ \E r \in Calls(view, t) : Trap(t, r)
                       /\ UNCHANGED fuseVars
ContainerGone == Walkers(view) = {} /\ Unregister /\ UNCHANGED fuseVars
FileOps == \E r \in Readers : (AskFile(r) \/ ServeFile(r)) /\ UNCHANGED tracerVars
Agents == \E c \in Clients : (Converse(c) \/ Killed(c)) /\ UNCHANGED <<tracerVars, fuseVars>>

Next == SyscallSteps \/ ContainerGone \/ FileOps \/ Agents

(* A goroutine that can go on does, and so does an agent until it is        *)
(* killed.  Nobody has to issue a syscall or a file operation.  (The first  *)
(* conjunct is weak fairness of Process(t), spelled out: it is enabled      *)
(* where it says and nothing else leaves these states.)                     *)
Fairness ==
    /\ \A t \in Tracees : []<>(tr[t].pc # "process" \/ down)
    /\ \A t \in Tracees : WF_vars(~down /\ AfterDecision(t) /\ UNCHANGED fuseVars)
    /\ \A r \in Readers : WF_vars(ServeFile(r) /\ UNCHANGED tracerVars)
    /\ \A c \in Clients : WF_vars(Converse(c) /\ UNCHANGED <<tracerVars, fuseVars>>)

Spec == Init /\ [][Next]_vars /\ Fairness
-----------------------------------------------------------------------------
(* What was done for a syscall, by its agent or by process().               *)
DoneFor(t) == conv[t].done \cup tr[t].eff

(* What must have been done before a call is answered with success.         *)
Needed(r) ==
    CASE r.call \in {"mount", "umount2"} -> {"mount"}
      [] r.call = "openat2" -> {"injected"}
      [] r.call \in {"setxattr", "lsetxattr", "fsetxattr"} -> {"setxattr"}
      [] r.call \in {"removexattr", "lremovexattr", "fremovexattr"} -> {"removexattr"}
      [] r.call \in {"getxattr", "lgetxattr", "fgetxattr", "listxattr", "llistxattr", "flistxattr"}
            /\ r.size > 0 -> {"written", "empty"}
      [] OTHER -> {}

(* A tracee is told what happened: success only if its syscall was          *)
(* performed, "continue" (the kernel performs it) only if it was not, and   *)
(* an error only if it was not, unless the agent was killed on the way or   *)
(* the chown after a procfs mount failed.                                   *)
AnswerTellsEffect ==
    \A t \in Tracees :
        LET got == tr[t].got IN
        /\ got.out = "success" /\ Needed(tr[t].req) # {} => Needed(tr[t].req) \cap DoneFor(t) # {}
        /\ got.out = "continue" => DoneFor(t) = {}
        /\ got.out = "error" => DoneFor(t) = {} \/ "killed" \in faults \/ got.err = "chown failed"

(* sysbox-fs keeps a descriptor that an agent sent only as long as the      *)
(* openat2 it belongs to is being processed.  (Two leaks are known: the     *)
(* descriptor that comes with a failed open, and one whose agent dies       *)
(* before the response.)                                                    *)
FdsAccounted ==
    faults \cap {"openat2", "killed"} = {} =>
        openFds = Cardinality({t \in Tracees : conv[t].fds = 1 /\ tr[t].pc \in {"await", "inject"}})

(* Once no agent runs, none has left a directory in the root of the         *)
(* container or emptied its /dev.  (Known exceptions: a killed agent, a     *)
(* failed mount of procfs, and on a read-only root one of sysfs.)           *)
RootLeftClean ==
    (\A c \in Clients : ~conv[c].run) =>
        /\ tmpDirs = 0 \/ faults \cap {"killed", "procfs"} # {}
        /\ devWhole \/ (readOnly /\ "sysfs" \in faults)

(* Every trapped syscall is answered and every file operation returns,      *)
(* whatever the agents do, unless sysbox-fs has ended.                      *)
RequestsEnd ==
    /\ \A t \in Tracees : tr[t].st = "blocked" ~> (tr[t].st = "running" \/ down)
    /\ \A r \in Readers : rd[r].op # "none" ~> rd[r].op = "none"

(* Every name that ReadDirAll() lists can be looked up: the handler that    *)
(* serves the directory and the one that serves the node agree, whatever    *)
(* the kernel of the host is configured with.                               *)
ListedResolves ==
    \A r \in Readers : \A name \in rd[r].names :
        LET path == Append(rd[r].at, name)
            by == LookupBy(LookupHandler(path), path)
        IN  \/ by = "itself"
            \/ by = "host" /\ path \in DOMAIN Host(view)
            \/ by = "pass" /\ path \in DOMAIN Cntr(view)

(* The directories emulated in /sys/kernel show nothing of what the host    *)
(* has there: no process gets below one or sees it listed.                  *)
Hidden == {<<"sys", "kernel", d>> : d \in {"config", "debug", "tracing", "security"}}
EmulatedDirsEmpty ==
    \A r \in Readers : \A d \in Hidden :
        /\ Within(d, rd[r].at) => rd[r].at = d
        /\ rd[r].at = d => rd[r].names = {}
=============================================================================
