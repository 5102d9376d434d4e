------------------------------- MODULE Tracer -------------------------------
(***************************************************************************)
(* A trapped syscall from its notification to its answer: process() and     *)
(* processSyscall() (seccomp/tracer.go) with what xattr.go and openat2.go   *)
(* do after the answer of the nsenter agent.  What mount() and umount() do  *)
(* is MountSyscall's subject, the mutex of the pid PidTracker's.            *)
(*                                                                          *)
(* A tracee stays blocked in its syscall until it is answered or a signal   *)
(* interrupts it, which invalidates the notification at any moment.         *)
(***************************************************************************)
EXTENDS Agent, Syscalls

CONSTANTS Tracees,     \* threads with a trapped syscall, each a client
          ProcOf(_),   \* the process that issued a syscall
          Files,       \* the files it sees
          MaxSyscalls  \* bound on the syscalls that are issued

VARIABLES tr,          \* per tracee, its notification and process()
          left,        \* syscalls that will still be issued
          known,       \* the container state service knows the container
          parser,      \* syscallTracer.memParser
          down         \* sysbox-fs has terminated

tracerVars == <<tr, left, known, parser, down>>

(* st: the tracee is running or blocked in the syscall; pc: where process() *)
(* is; req: the syscall, once decided only its name and buffer size; resp:  *)
(* the response; eff: what process() did itself; got: the answer.           *)
NoRequest == [call |-> "none", size |-> 0]
NoAnswer == Outcome("none", "none", <<>>)
Idle == [st |-> "running", pc |-> "idle", req |-> NoRequest, resp |-> NoAnswer, eff |-> {}, got |-> NoAnswer]

InitTracer == /\ tr = [t \in Tracees |-> Idle]
              /\ left \in 0..MaxSyscalls
              /\ known = TRUE
              /\ parser \in {"iovec", "procfs"}
              /\ down = FALSE

Goto(t, pc, resp) == tr' = [tr EXCEPT ![t].pc = pc, ![t].resp = resp]
Decided(t, pc, resp) ==
    tr' = [tr EXCEPT ![t].pc = pc, ![t].resp = resp,
                     ![t].req = [call |-> tr[t].req.call, size |-> tr[t].req.size]]
-----------------------------------------------------------------------------
(* A syscall is trapped; connHandler() starts process().  (A tracee whose   *)
(* former syscall was interrupted waits for the mutex of its pid.)          *)
Trap(t, r) ==
    /\ tr[t].pc = "idle" /\ left > 0
    /\ tr' = [tr EXCEPT ![t] = [Idle EXCEPT !.st = "blocked", !.pc = "process", !.req = r]]
    /\ conv' = [conv EXCEPT ![t] = Closed]
    /\ left' = left - 1
    /\ UNCHANGED <<known, parser, down, tmpDirs, devWhole, readOnly, openFds, faults>>

Interrupt(t) ==
    /\ tr[t].st = "blocked"
    /\ tr' = [tr EXCEPT ![t].st = "running"]
    /\ UNCHANGED <<left, known, parser, down, agentVars>>

(* ContainerUnregister()                                                    *)
Unregister ==
    /\ known /\ known' = FALSE
    /\ UNCHANGED <<tr, left, parser, down, agentVars>>

(* What a call asks the agent for.                                          *)
RequestType(call) ==
    CASE call \in {"setxattr", "lsetxattr", "fsetxattr"} -> "setxattr"
      [] call \in {"getxattr", "lgetxattr", "fgetxattr"} -> "getxattr"
      [] call \in {"removexattr", "lremovexattr", "fremovexattr"} -> "removexattr"
      [] call \in {"listxattr", "llistxattr", "flistxattr"} -> "listxattr"
      [] call = "openat2" -> "openat2"

(* processSyscall() until it has a response or waits for somebody.  The     *)
(* responses to an unknown container and to a syscall that is not handled   *)
(* skip the validity check.                                                 *)
Process(t) ==
    LET o == Dispatch(parser, ProcOf(tr[t].req), Files, tr[t].req) IN
    /\ tr[t].pc = "process"
    /\ CASE ~known -> Decided(t, "respond", createErrorResponse("EPERM"))
         [] known /\ o.out = "unsupported" -> Decided(t, "respond", createErrorResponse("EINVAL"))
         [] known /\ o.out \in {"continue", "success", "error"} -> Decided(t, "check", o)
         [] known /\ o.out = "mount" -> Decided(t, "mount", NoAnswer)
         [] known /\ o.out = "agent" -> Decided(t, "send", NoAnswer)
         [] known /\ o.out = "panic" -> Decided(t, "panic", NoAnswer)
    /\ down' = (down \/ (known /\ o.out = "panic"))
    /\ UNCHANGED <<left, known, parser, agentVars>>

(* mount.process(), umount.process().  An error undoes what was mounted,    *)
(* but for that of the chown that ends a procfs mount.                      *)
Mount(t) ==
    /\ tr[t].pc = "mount"
    /\ \/ Goto(t, "check", createContinueResponse)
       \/ tr' = [tr EXCEPT ![t].pc = "check", ![t].resp = createSuccessResponse, ![t].eff = {"mount"}]
       \/ Goto(t, "check", createErrorResponse("errno"))
       \/ /\ tr[t].req.call = "mount"
          /\ \E pc \in {"check", "respond"} :
                tr' = [tr EXCEPT ![t].pc = pc, ![t].eff = {"mount"},
                                 ![t].resp = createErrorResponse("chown failed")]
       \/ Goto(t, "respond", createErrorResponse("EINVAL"))
    /\ UNCHANGED <<left, known, parser, down, agentVars>>

Send(t) ==
    /\ tr[t].pc = "send"
    /\ SendRequest(t, RequestType(tr[t].req.call), "none")
    /\ Goto(t, "await", tr[t].resp)
    /\ UNCHANGED <<left, known, parser, down, tmpDirs, devWhole, readOnly, openFds, faults>>

(* Slip: what an agent could not do is left to the kernel.                  *)
AnsweredContinue(t) ==
    /\ tr[t].pc = "await" /\ Answer(t) \in Answers
    /\ Goto(t, "check", IF Answer(t) = "ok" THEN createSuccessResponse ELSE createContinueResponse)
    /\ UNCHANGED <<left, known, parser, down, agentVars>>

(* An infrastructure error is answered EINVAL without the validity check;   *)
(* an ErrorResponse with its errno; a response may need more work.          *)
Answered(t) ==
    /\ tr[t].pc = "await" /\ Answer(t) \in Answers
    /\ CASE Answer(t) = "infra" -> Goto(t, "respond", createErrorResponse("EINVAL"))
         [] Answer(t) = "error" -> Goto(t, "check", createErrorResponse("errno"))
         [] Answer(t) = "ok" ->
              LET type == RequestType(tr[t].req.call)
              IN  CASE type = "openat2" -> Goto(t, "inject", tr[t].resp)
                    [] type \in {"getxattr", "listxattr"} /\ tr[t].req.size > 0 ->
                         Goto(t, "write", tr[t].resp)
                    [] OTHER -> Goto(t, "check", createSuccessResponse)
    /\ UNCHANGED <<left, known, parser, down, agentVars>>

(* xattr.go: the value goes into the memory of the tracee, if there is one. *)
WriteBack(t) ==
    /\ tr[t].pc = "write"
    /\ \/ tr' = [tr EXCEPT ![t].pc = "check", ![t].resp = createSuccessResponse, ![t].eff = {"written"}]
       \/ tr' = [tr EXCEPT ![t].pc = "check", ![t].resp = createSuccessResponse, ![t].eff = {"empty"}]
       \/ Goto(t, "check", createErrorResponse("ENOTSUP"))
    /\ UNCHANGED <<left, known, parser, down, agentVars>>

(* Slip: the descriptor is closed only once it was injected.                *)
InjectFdLate(t) ==
    /\ tr[t].pc = "inject"
    /\ \/ /\ tr[t].st = "blocked"
          /\ tr' = [tr EXCEPT ![t].pc = "check", ![t].resp = createSuccessResponse, ![t].eff = {"injected"}]
          /\ openFds' = openFds - 1
       \/ Goto(t, "check", createErrorResponse("EINVAL")) /\ UNCHANGED openFds
    /\ UNCHANGED <<left, known, parser, down, conv, tmpDirs, devWhole, readOnly, faults>>

(* openat2.go: ADDFD, which the kernel refuses once the notification is     *)
(* invalid, then close().                                                   *)
InjectFd(t) ==
    /\ tr[t].pc = "inject"
    /\ \/ /\ tr[t].st = "blocked"
          /\ tr' = [tr EXCEPT ![t].pc = "check", ![t].resp = createSuccessResponse, ![t].eff = {"injected"}]
       \/ Goto(t, "check", createErrorResponse("EINVAL"))
    /\ openFds' = openFds - 1
    /\ UNCHANGED <<left, known, parser, down, conv, tmpDirs, devWhole, readOnly, faults>>

(* NotifIDValid()                                                           *)
Check(t) ==
    /\ tr[t].pc = "check"
    /\ Goto(t, IF tr[t].st = "blocked" THEN "respond" ELSE "idle", tr[t].resp)
    /\ UNCHANGED <<left, known, parser, down, agentVars>>

(* NotifRespond(): without effect on an invalid notification.               *)
NotifRespond(t) ==
    /\ tr[t].pc = "respond"
    /\ tr' = [tr EXCEPT ![t].pc = "idle",
                        ![t].st = "running",
                        ![t].got = IF tr[t].st = "blocked" THEN tr[t].resp ELSE NoAnswer]
    /\ UNCHANGED <<left, known, parser, down, agentVars>>

AfterDecision(t) ==
    \/ Mount(t) \/ Send(t) \/ Answered(t) \/ WriteBack(t) \/ InjectFd(t)
    \/ Check(t) \/ NotifRespond(t)
=============================================================================
