------------------------------- MODULE Agent -------------------------------
(***************************************************************************)
(* A conversation with an nsenter agent (nsenter/event.go, nsenter/utils.go)*)
(* seen from both ends of its socket: SendRequest() and processResponse()   *)
(* in sysbox-fs, Init() and processRequest() in the agent that runs in the  *)
(* namespaces of the container.  How the agent is launched and reaped is    *)
(* NSenter's subject.                                                       *)
(*                                                                          *)
(* A request type is the sequence of steps its handler takes.  A step that  *)
(* fails makes the answer an ErrorResponse.  The agent lives in the pid     *)
(* namespace of the container and may be killed at any step.                *)
(***************************************************************************)
EXTENDS Naturals, FiniteSets, Sequences

CONSTANTS Clients,     \* goroutines of sysbox-fs that send requests
          MaxFaults    \* how many kinds of such failures happen

ASSUME AgentAssumption == IsFiniteSet(Clients)

VARIABLES conv,        \* per client, its conversation
          tmpDirs,     \* directories /.sysbox-* in the root of the container
          devWhole,    \* nobody removed what is in /dev
          readOnly,    \* the root of the container is read-only
          openFds,     \* descriptors sysbox-fs received and did not close
          faults       \* failures so far that leave something behind

agentVars == <<conv, tmpDirs, devWhole, readOnly, openFds, faults>>

(* event: where SendRequest() is; run, todo, fs, at, res: the agent, its    *)
(* steps to come, the filesystem it has to mount, where it is mounted, its  *)
(* response; fd: what Init() passes to sendmsg(); sock: what is on its way; *)
(* fds: descriptors received with this answer; done: effects so far.        *)
Closed == [event |-> "none", run |-> FALSE, todo |-> <<>>, fs |-> "none", at |-> "none",
           res |-> "none", fd |-> "none", sock |-> <<>>, fds |-> 0, done |-> {}]

InitAgent == /\ conv = [c \in Clients |-> Closed]
             /\ tmpDirs = 0 /\ devWhole = TRUE
             /\ readOnly \in BOOLEAN
             /\ openFds = 0 /\ faults = {}

Set(c, r) == conv' = [conv EXCEPT ![c] = r]

(* A failure that leaves something behind happens once.                     *)
Fault(f) == /\ f \notin faults /\ Cardinality(faults) < MaxFaults
            /\ faults' = faults \cup {f}
-----------------------------------------------------------------------------
(* The handlers of processRequest().  Those of file operations mount a      *)
(* filesystem first if they are told to.                                    *)
Mounts(fs) == IF fs = "none" THEN <<>> ELSE <<"mktemp", "mountfs">>

processLookupRequest(fs) == Mounts(fs) \o <<"lstat">>
processOpenFileRequest(fs) == Mounts(fs) \o <<"open">>
processFileReadRequest(fs) == Mounts(fs) \o <<"open", "read">>
processFileWriteRequest(fs) == Mounts(fs) \o <<"open", "write">>
processDirReadRequest(fs) == Mounts(fs) \o <<"readdir">>
processReadLinkRequest(fs) == Mounts(fs) \o <<"readlink">>
processSetxattrSyscallRequest == <<"setxattr">>
processGetxattrSyscallRequest == <<"personality", "getxattr">>
processRemovexattrSyscallRequest == <<"removexattr">>
processListxattrSyscallRequest == <<"personality", "listxattr">>
processOpenat2SyscallRequest == <<"statfs", "personality", "openat2">>

(* Which handler serves a request.                                          *)
processRequest(type, fs) ==
    CASE type = "lookup" -> processLookupRequest(fs)
      [] type = "open" -> processOpenFileRequest(fs)
      [] type = "read" -> processFileReadRequest(fs)
      [] type = "write" -> processFileWriteRequest(fs)
      [] type = "readdir" -> processDirReadRequest(fs)
      [] type = "readlink" -> processReadLinkRequest(fs)
      [] type = "setxattr" -> processSetxattrSyscallRequest
      [] type = "getxattr" -> processGetxattrSyscallRequest
      [] type = "removexattr" -> processRemovexattrSyscallRequest
      [] type = "listxattr" -> processListxattrSyscallRequest
      [] type = "openat2" -> processOpenat2SyscallRequest

(* Steps that change something outside the agent.                           *)
Effects == {"setxattr", "removexattr", "write"}

AtStep(c, steps) == conv[c].run /\ conv[c].todo # <<>> /\ Head(conv[c].todo) \in steps

Advance(c, r) == Set(c, [r EXCEPT !.todo = Tail(@), !.res = IF Len(r.todo) = 1 THEN "ok" ELSE @])

(* The descriptor a failed openat2 request leaves for Init() to send: 0 if  *)
(* the open itself failed, -1 before.                                       *)
LeftFd(step) == CASE step \in {"statfs", "personality"} -> "invalid"
                  [] step = "openat2" -> "fd"
                  [] OTHER -> "none"

Failed(r) == [r EXCEPT !.todo = <<>>, !.res = "error",
                       !.fd = IF r.todo[Len(r.todo)] = "openat2" THEN LeftFd(Head(r.todo)) ELSE "none"]

(* processPayloadMounts(): a directory of its own in the root of the        *)
(* container, or /dev if the root is read-only.                             *)
MkdirTemp(c) ==
    /\ AtStep(c, {"mktemp"})
    /\ \/ /\ Set(c, [conv[c] EXCEPT !.todo = Tail(@), !.at = IF readOnly THEN "dev" ELSE "tmp"])
          /\ tmpDirs' = IF readOnly THEN tmpDirs ELSE tmpDirs + 1
       \/ /\ ~readOnly
          /\ Set(c, Failed(conv[c]))
          /\ UNCHANGED tmpDirs
    /\ UNCHANGED <<devWhole, readOnly, openFds, faults>>

MountFs(c) ==
    /\ AtStep(c, {"mountfs"})
    /\ Set(c, [conv[c] EXCEPT !.todo = Tail(@)])
    /\ UNCHANGED <<tmpDirs, devWhole, readOnly, openFds, faults>>

(* Slip: the directory of a failed sysfs mount is left behind.              *)
MountFsFailsKeepsDir(c) ==
    /\ AtStep(c, {"mountfs"})
    /\ Set(c, [Failed(conv[c]) EXCEPT !.at = "none"])
    /\ Fault(conv[c].fs)
    /\ UNCHANGED <<tmpDirs, devWhole, readOnly, openFds>>

(* The mount fails: RemoveAll() of the mountpoint for sysfs, whatever it    *)
(* is; nothing for procfs.                                                  *)
MountFsFails(c) ==
    LET removes == conv[c].fs = "sysfs" IN
    /\ AtStep(c, {"mountfs"})
    /\ Set(c, [Failed(conv[c]) EXCEPT !.at = "none"])
    /\ tmpDirs' = IF removes /\ conv[c].at = "tmp" THEN tmpDirs - 1 ELSE tmpDirs
    /\ devWhole' = (devWhole /\ ~(removes /\ conv[c].at = "dev"))
    /\ Fault(conv[c].fs)
    /\ UNCHANGED <<readOnly, openFds>>

OwnSteps == {"lstat", "open", "read", "write", "readdir", "readlink", "setxattr", "getxattr",
             "removexattr", "listxattr", "statfs", "personality", "openat2"}

Operate(c) ==
    LET step == Head(conv[c].todo) IN
    /\ AtStep(c, OwnSteps)
    /\ Advance(c, [conv[c] EXCEPT !.done = @ \cup ({step} \cap Effects),
                                  !.fd = IF step = "openat2" THEN "fd" ELSE @])
    /\ UNCHANGED <<tmpDirs, devWhole, readOnly, openFds, faults>>

OperateFails(c) ==
    /\ AtStep(c, OwnSteps)
    /\ Set(c, Failed(conv[c]))
    /\ IF Head(conv[c].todo) = "openat2" THEN Fault("openat2") ELSE UNCHANGED faults
    /\ UNCHANGED <<tmpDirs, devWhole, readOnly, openFds>>

(* The deferred cleanup(): unmount, and remove a directory of its own.      *)
Cleanup(c) ==
    /\ conv[c].run /\ conv[c].res # "none" /\ conv[c].at # "none"
    /\ Set(c, [conv[c] EXCEPT !.at = "none"])
    /\ tmpDirs' = IF conv[c].at = "tmp" THEN tmpDirs - 1 ELSE tmpDirs
    /\ UNCHANGED <<devWhole, readOnly, openFds, faults>>

(* Init(): descriptors first, a message without any if there are none; one  *)
(* that sendmsg() refuses is not sent.                                      *)
SendRights(c) ==
    /\ conv[c].run /\ conv[c].res # "none" /\ conv[c].at = "none" /\ conv[c].fd # "sent"
    /\ Set(c, [conv[c] EXCEPT !.fd = "sent",
                              !.sock = IF conv[c].fd = "invalid" THEN @
                                       ELSE Append(@, IF conv[c].fd = "fd" THEN "fd" ELSE "nofd")])
    /\ UNCHANGED <<tmpDirs, devWhole, readOnly, openFds, faults>>

(* Init(): then the response; the agent exits.                              *)
SendResponse(c) ==
    /\ conv[c].run /\ conv[c].fd = "sent"
    /\ Set(c, [conv[c] EXCEPT !.run = FALSE, !.sock = Append(@, conv[c].res)])
    /\ UNCHANGED <<tmpDirs, devWhole, readOnly, openFds, faults>>

Killed(c) ==
    /\ conv[c].run
    /\ Set(c, [conv[c] EXCEPT !.run = FALSE])
    /\ Fault("killed")
    /\ UNCHANGED <<tmpDirs, devWhole, readOnly, openFds>>
-----------------------------------------------------------------------------
(* SendRequest() up to processResponse(): the agent runs and has the        *)
(* request; or launching it failed.                                         *)
SendRequest(c, type, fs) ==
    /\ conv[c] = Closed
    /\ \/ Set(c, [Closed EXCEPT !.event = "sent", !.run = TRUE, !.fs = fs,
                                !.todo = processRequest(type, fs)])
       \/ Set(c, [Closed EXCEPT !.event = "infra"])

(* Slip: the end of the socket is not noticed.                              *)
getRespFileDescriptorsBlocks(c) ==
    LET sock == conv[c].sock IN
    /\ conv[c].event = "sent"
    /\ sock # <<>>
    /\ LET n == IF Head(sock) = "fd" THEN 1 ELSE 0
       IN  /\ Set(c, [conv[c] EXCEPT !.event = "rights", !.fds = n,
                                     !.sock = IF Head(sock) \in {"fd", "nofd"} THEN Tail(@) ELSE <<"cut">>])
           /\ openFds' = openFds + n
    /\ UNCHANGED <<tmpDirs, devWhole, readOnly, faults>>

(* getRespFileDescriptors(): takes what comes first.  The end of the socket *)
(* is a message without descriptors; a response that comes first loses its  *)
(* first byte.                                                              *)
getRespFileDescriptors(c) ==
    LET sock == conv[c].sock IN
    /\ conv[c].event = "sent"
    /\ sock # <<>> \/ ~conv[c].run
    /\ LET n == IF sock # <<>> /\ Head(sock) = "fd" THEN 1 ELSE 0
           rest == IF sock = <<>> THEN <<>>
                   ELSE IF Head(sock) \in {"fd", "nofd"} THEN Tail(sock)
                   ELSE <<"cut">>
       IN  /\ Set(c, [conv[c] EXCEPT !.event = "rights", !.fds = n, !.sock = rest])
           /\ openFds' = openFds + n
    /\ UNCHANGED <<tmpDirs, devWhole, readOnly, faults>>

(* processResponse(): decodes what follows.                                 *)
processResponse(c) ==
    LET sock == conv[c].sock IN
    /\ conv[c].event = "rights"
    /\ sock # <<>> \/ ~conv[c].run
    /\ Set(c, [conv[c] EXCEPT !.event = IF sock = <<>> \/ Head(sock) = "cut" THEN "infra" ELSE Head(sock),
                              !.sock = <<>>])
    /\ UNCHANGED <<tmpDirs, devWhole, readOnly, openFds, faults>>

Converse(c) == \/ MkdirTemp(c) \/ MountFs(c) \/ MountFsFails(c)
               \/ Operate(c) \/ OperateFails(c) \/ Cleanup(c)
               \/ SendRights(c) \/ SendResponse(c)
               \/ getRespFileDescriptors(c) \/ processResponse(c)

Answer(c) == conv[c].event
Answers == {"ok", "error", "infra"}
=============================================================================
