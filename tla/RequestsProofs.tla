--------------------------- MODULE RequestsProofs ---------------------------
(***************************************************************************)
(* Proofs, for any number of syscalls, file operations and agents, that     *)
(* answers tell what was done, that descriptors of agents are closed and    *)
(* that agents leave nothing behind in the container.  AgentProofs has what *)
(* holds of each conversation; here is what holds between a conversation    *)
(* and the syscall or file operation it serves.                             *)
(***************************************************************************)
EXTENDS Requests, AgentProofs

(* A tracee is a record of the fields of Idle.                              *)
IsTracee(x) == x = [st |-> x.st, pc |-> x.pc, req |-> x.req, resp |-> x.resp, eff |-> x.eff, got |-> x.got]

(* Syscalls an agent performs.                                              *)
AgentCalls == {"setxattr", "lsetxattr", "fsetxattr", "getxattr", "lgetxattr", "fgetxattr",
               "removexattr", "lremovexattr", "fremovexattr", "listxattr", "llistxattr", "flistxattr",
               "openat2"}

(* An answer tells what was done for the syscall.                           *)
Tells(t, a) ==
    /\ a.out = "success" /\ Needed(tr[t].req) # {} => Needed(tr[t].req) \cap DoneFor(t) # {}
    /\ a.out = "continue" => DoneFor(t) = {}
    /\ a.out = "error" => DoneFor(t) = {} \/ "killed" \in faults \/ a.err = "chown failed"

(* Where process() is and where its agent is.                               *)
PhaseOK(t) ==
    LET x == tr[t]
        v == conv[t]
    IN  /\ x.pc \in {"process", "mount", "send"} => v = Closed
        /\ x.pc = "await" => v.event # "none"
        /\ v.event \in {"sent", "rights"} => x.pc = "await"
        /\ x.pc \in {"send", "await", "write", "inject"} => x.req.call \in AgentCalls
        /\ x.pc = "mount" => x.req.call \in {"mount", "umount2"}
        /\ x.pc = "write" => RequestType(x.req.call) \in {"getxattr", "listxattr"}
        /\ x.pc = "inject" => x.req.call = "openat2" /\ v.event = "ok"

(* What was done so far.                                                    *)
WorkOK(t) ==
    LET x == tr[t]
        v == conv[t]
    IN  /\ x.pc \notin {"check", "respond", "idle"} => x.eff = {}
        /\ x.pc \in {"await", "write", "inject"} => Goal(v, RequestType(x.req.call))
        /\ Carries(v) => x.req.call = "openat2"
        /\ x.pc \in {"check", "respond"} => Tells(t, x.resp)
        /\ IF x.pc = "idle" THEN Tells(t, x.got) ELSE x.got = NoAnswer

TraceeOK(t) == IsTracee(tr[t]) /\ PhaseOK(t) /\ WorkOK(t)
-----------------------------------------------------------------------------
IsReader(x) == x = [at |-> x.at, kind |-> x.kind, node |-> x.node, op |-> x.op, path |-> x.path,
                    by |-> x.by, got |-> x.got, names |-> x.names]

(* A file operation has an agent only while one works for it, and no        *)
(* descriptor comes from it.                                                *)
ReaderOK(r) ==
    /\ IsReader(rd[r])
    /\ rd[r].op \in {"none", "lookup", "open", "read", "write", "readdir", "readlink", "create", "created"}
    /\ rd[r].op = "none" => rd[r].by = "none"
    /\ rd[r].by # "agent" => conv[r] = Closed
    /\ ~Carries(conv[r])
-----------------------------------------------------------------------------
(* Whose descriptor sysbox-fs has received and has to close.                *)
Waiting == {t \in Tracees : conv[t].fds = 1 /\ tr[t].pc \in {"await", "inject"}}

ReqInv == /\ AgentInv
          /\ DOMAIN tr = Tracees /\ DOMAIN rd = Readers
          /\ \A t \in Tracees : TraceeOK(t)
          /\ \A r \in Readers : ReaderOK(r)
          /\ FdsAccounted
-----------------------------------------------------------------------------
(* A syscall in order stays so while others move.                           *)
LEMMA TraceeElsewhere ==
    ASSUME NEW t, TraceeOK(t), conv'[t] = conv[t], tr'[t] = tr[t], faults \subseteq faults'
    PROVE  TraceeOK(t)'
<1>1. PICK v : v = conv[t]
  OBVIOUS
<1>2. PICK x : x = tr[t]
  OBVIOUS
<1>3. conv'[t] = v /\ tr'[t] = x
  BY <1>1, <1>2
<1>4. IsTracee(tr[t])' /\ PhaseOK(t)'
  BY <1>1, <1>2, <1>3 DEF TraceeOK, IsTracee, PhaseOK
<1>5. \A a : Tells(t, a) => Tells(t, a)'
  BY <1>1, <1>2, <1>3, ZenonT(30) DEF Tells, DoneFor
<1>6. \A g : Goal(v, g) => Goal(v, g)'
  BY DEF Goal
<1>7. WorkOK(t)'
  BY <1>1, <1>2, <1>3, <1>5, <1>6 DEF TraceeOK, WorkOK
<1> QED
  BY <1>4, <1>7 DEF TraceeOK

(* The syscall whose agent moves is waiting for it.                         *)
LEMMA TraceeWaits ==
    ASSUME NEW t, TraceeOK(t), tr'[t] = tr[t], faults \subseteq faults',
           conv[t].event \in {"sent", "rights"}, conv'[t].event # "none",
           Carries(conv'[t]) => Carries(conv[t]),
           \A g : Goal(conv[t], g) => Goal(conv[t], g)'
    PROVE  TraceeOK(t)'
<1>1. PICK v : v = conv[t]
  OBVIOUS
<1>2. PICK w : w = conv'[t]
  OBVIOUS
<1>3. PICK x : x = tr[t]
  OBVIOUS
<1>4. tr'[t] = x /\ x.pc = "await" /\ IsTracee(x)
  BY <1>3 DEF TraceeOK, PhaseOK
<1>5. PhaseOK(t)'
  BY <1>2, <1>3, <1>4 DEF TraceeOK, PhaseOK
<1>6. WorkOK(t)'
  <2>1. x.eff = {} /\ x.got = NoAnswer /\ Goal(v, RequestType(x.req.call)) /\ (Carries(v) => x.req.call = "openat2")
    BY <1>1, <1>3, <1>4 DEF TraceeOK, WorkOK
  <2>2. Goal(conv[t], RequestType(x.req.call))'
    BY <1>1, <2>1, <1>4
  <2> QED
    BY <1>1, <1>2, <1>4, <2>1, <2>2 DEF WorkOK
<1> QED
  BY <1>4, <1>5, <1>6 DEF TraceeOK

(* Whose descriptors sysbox-fs has.                                         *)
LEMMA WaitingFinite == IsFiniteSet(Waiting) /\ Cardinality(Waiting) \in Nat
<1>1. Waiting \subseteq Clients
  BY RequestsAssumption DEF Waiting
<1>2. IsFiniteSet(Waiting)
  BY <1>1, FS_Subset, AgentAssumption
<1> QED
  BY <1>2, FS_CardinalityType

(* Every step of an agent or of the client that waits for it.               *)
LEMMA AgentsKeep == ReqInv /\ Agents => ReqInv'
<1> SUFFICES ASSUME ReqInv, NEW c \in Clients, Converse(c) \/ Killed(c),
                    UNCHANGED <<tracerVars, fuseVars>>
             PROVE  ReqInv'
  BY DEF Agents
<1>1. Stepped(c)
  BY ConverseSteps DEF ReqInv
<1>2. tr' = tr /\ rd' = rd
  BY DEF tracerVars, fuseVars
<1>3. ASSUME NEW t \in Tracees PROVE TraceeOK(t)'
  <2>1. CASE t = c
    BY <1>1, <1>2, <2>1, TraceeWaits DEF ReqInv, Stepped
  <2>2. CASE t # c
    BY <1>1, <1>2, <2>2, TraceeElsewhere, RequestsAssumption DEF ReqInv, Stepped
  <2> QED
    BY <2>1, <2>2
<1>4. ASSUME NEW r \in Readers PROVE ReaderOK(r)'
  <2>1. CASE r = c
    <3>1. conv[r] # Closed
      BY <1>1, <2>1 DEF Closed, Stepped
    <3> QED
      BY <1>1, <1>2, <2>1, <3>1 DEF ReqInv, ReaderOK, Stepped, Carries, IsReader
  <2>2. CASE r # c
    <3>1. conv'[r] = conv[r]
      BY <1>1, <2>2, RequestsAssumption DEF Stepped
    <3> QED
      BY <1>2, <3>1 DEF ReqInv, ReaderOK, Carries, IsReader
  <2> QED
    BY <2>1, <2>2
<1>5. FdsAccounted'
  <2>1. \A d \in Clients : d # c => conv'[d] = conv[d]
    BY <1>1 DEF Stepped
  <2>2. CASE conv'[c].fds = conv[c].fds /\ openFds' = openFds
    <3>1. Waiting' = Waiting
      BY <1>2, <2>1, <2>2, RequestsAssumption DEF Waiting
    <3> QED
      BY <1>1, <2>2, <3>1, ZenonT(30) DEF ReqInv, FdsAccounted, Waiting, Stepped
  <2>3. CASE /\ conv[c].fds = 0 /\ conv'[c].fds = 1 /\ openFds' = openFds + 1
             /\ Carries(conv[c]) /\ conv[c].event = "sent"
    <3>1. c \in Tracees
      BY <2>3, RequestsAssumption DEF ReqInv, ReaderOK
    <3>2. tr[c].pc = "await"
      BY <2>3, <3>1 DEF ReqInv, TraceeOK, PhaseOK
    <3>3. Waiting' = Waiting \cup {c} /\ c \notin Waiting
      BY <1>2, <2>1, <2>3, <3>1, <3>2, RequestsAssumption DEF Waiting
    <3>4. Cardinality(Waiting') = Cardinality(Waiting) + 1
      BY <3>3, WaitingFinite, FS_AddElement
    <3> QED
      BY <1>1, <2>3, <3>4 DEF ReqInv, FdsAccounted, Waiting, Stepped
  <2> QED
    BY <1>1, <2>2, <2>3 DEF Stepped
<1> QED
  BY <1>1, <1>2, <1>3, <1>4, <1>5 DEF ReqInv, Stepped
-----------------------------------------------------------------------------
(* What Outcome() makes.                                                    *)
LEMMA OutOf == \A o, e, l : Outcome(o, e, l).out = o
BY DEF Outcome

(* An xattr syscall goes to the kernel, to an agent, or fails.              *)
LEMMA OutXattr ==
    ASSUME NEW p, NEW fs, NEW r, NEW b
    PROVE  xattrTarget(p, fs, r, b).out \in {"continue", "error", "agent"}
BY OutOf, SMTT(30) DEF xattrTarget, sanitizePath, AskFor, createContinueResponse, createErrorResponse, Ask

(* A mount goes to the mount code, or fails.                                *)
LEMMA OutMount ==
    ASSUME NEW p, NEW fs, NEW r
    PROVE  MountAt(p, fs, r).out \in {"error", "mount"}
BY OutOf, ZenonT(30) DEF MountAt, MountOn, createErrorResponse, HandOver

(* A chown is answered, or goes to the kernel.                              *)
LEMMA OutChown ==
    ASSUME NEW p, NEW r, NEW s
    PROVE  ci_DecideOn(p, r, s).out \in {"error", "success", "continue"}
BY OutOf DEF ci_DecideOn, ci_Decide, createContinueResponse, createErrorResponse, createSuccessResponse

(* What the tracer decides about a syscall: it is performed by nobody else  *)
(* than the one it is handed to, and is answered with success right away    *)
(* only if nothing has to be done for it.                                   *)
LEMMA DispatchOut ==
    ASSUME NEW ps, NEW p, NEW fs, NEW r, NEW o, o = Dispatch(ps, p, fs, r)
    PROVE  /\ o.out \in {"unsupported", "continue", "success", "error", "mount", "agent", "panic"}
           /\ o.out = "success" => Needed(r) = {}
           /\ o.out = "agent" => r.call \in AgentCalls
           /\ o.out = "mount" => r.call \in {"mount", "umount2"}
<1> USE DEF createContinueResponse, createErrorResponse, createSuccessResponse
<1>1. CASE r.call = "openat2"
  <2>1. o = t_processOpenat2(ps, p, r)
    BY <1>1 DEF Dispatch
  <2>2. \A s : AskIfMount(s).out \in {"continue", "agent"}
    BY OutOf DEF AskIfMount, Ask
  <2>3. si_processOpenat2(p, r).out \in {"continue", "agent"}
    BY <2>2, OutOf DEF si_processOpenat2
  <2>4. o.out \in {"continue", "agent", "error", "panic"}
    BY <2>1, <2>3, OutOf DEF t_processOpenat2, AfterStrings, AfterBytes, Panic
  <2> QED
    BY <1>1, <2>4 DEF AgentCalls
<1>2. CASE r.call = "mount"
  <2>1. o = t_processMount(p, fs, r)
    BY <1>2 DEF Dispatch
  <2>2. o.out \in {"mount", "error"}
    BY <2>1, OutMount, OutOf DEF t_processMount, AfterStrings
  <2> QED
    BY <1>2, <2>2
<1>3. CASE r.call = "umount2"
  <2>1. o = t_processUmount(p, fs, r)
    BY <1>3 DEF Dispatch
  <2>2. o.out \in {"mount", "error", "continue"}
    BY <2>1, OutMount, OutOf DEF t_processUmount, AfterStrings, OrContinue
  <2> QED
    BY <1>3, <2>2
<1>4. CASE r.call \in {"reboot", "swapon", "swapoff"}
  <2>1. o = createSuccessResponse
    BY <1>4 DEF Dispatch, t_processReboot, t_processSwapon, t_processSwapoff
  <2>2. Needed(r) = {}
    BY <1>4 DEF Needed
  <2> QED
    BY <2>1, <2>2, OutOf
<1>5. CASE r.call \in {"chown", "fchown", "fchownat"}
  <2>1. o \in {t_processChown(p, r), t_processFchown(p, r), t_processFchownat(p, r)}
    BY <1>5 DEF Dispatch
  <2>2. ci_processChown(p, r).out \in {"error", "success", "continue"}
    BY OutChown DEF ci_processChown
  <2>3. ci_processFchown(p, r).out \in {"error", "success", "continue"}
    BY OutChown, OutOf DEF ci_processFchown
  <2>4. ci_processFchownat(p, r).out \in {"error", "success", "continue"}
    BY OutChown, OutOf DEF ci_processFchownat
  <2>5. o.out \in {"error", "success", "continue"}
    BY <2>1, <2>2, <2>3, <2>4, OutOf DEF t_processChown, t_processFchown, t_processFchownat, AfterStrings
  <2>6. Needed(r) = {}
    BY <1>5 DEF Needed
  <2> QED
    BY <2>5, <2>6
<1>6. CASE r.call \in AgentCalls \ {"openat2"}
  <2>1. si_processSetxattr(p, fs, r).out \in {"continue", "error", "agent"}
    BY OutXattr, OutOf DEF si_processSetxattr
  <2>2. si_processGetxattr(p, fs, r).out \in {"continue", "error", "agent"}
    BY OutXattr, OutOf DEF si_processGetxattr
  <2>3. si_processRemovexattr(p, fs, r).out \in {"continue", "error", "agent"}
    BY OutXattr, OutOf DEF si_processRemovexattr
  <2>4. si_processListxattr(p, fs, r).out \in {"continue", "error", "agent"}
    BY OutXattr DEF si_processListxattr
  <2>5. CASE r.call \in {"setxattr", "lsetxattr", "fsetxattr"}
    <3>1. o = AfterStrings(r, AfterBytes(ps, r, si_processSetxattr(p, fs, r)))
      BY <2>5 DEF Dispatch, t_processSetxattr, t_processFsetxattr
    <3> QED
      BY <1>6, <2>1, <3>1, OutOf DEF AfterStrings, AfterBytes, Panic
  <2>6. CASE r.call \in {"getxattr", "lgetxattr", "fgetxattr"}
    <3>1. o = AfterStrings(r, si_processGetxattr(p, fs, r))
      BY <2>6 DEF Dispatch, t_processGetxattr, t_processFgetxattr
    <3> QED
      BY <1>6, <2>2, <3>1, OutOf DEF AfterStrings
  <2>7. CASE r.call \in {"removexattr", "lremovexattr", "fremovexattr"}
    <3>1. o = AfterStrings(r, si_processRemovexattr(p, fs, r))
      BY <2>7 DEF Dispatch, t_processRemovexattr, t_processFremovexattr
    <3> QED
      BY <1>6, <2>3, <3>1, OutOf DEF AfterStrings
  <2>8. CASE r.call \in {"listxattr", "llistxattr", "flistxattr"}
    <3>1. o \in {t_processListxattr(p, fs, r), t_processFlistxattr(p, fs, r)}
      BY <2>8 DEF Dispatch
    <3> QED
      BY <1>6, <2>4, <3>1, OutOf DEF AfterStrings, t_processListxattr, t_processFlistxattr
  <2> QED
    BY <1>6, <2>5, <2>6, <2>7, <2>8 DEF AgentCalls
<1>7. CASE r.call \notin AgentCalls \cup {"mount", "umount2", "reboot", "swapon", "swapoff", "chown", "fchown", "fchownat"}
  <2>1. o = Outcome("unsupported", "EINVAL", <<>>)
    BY <1>7 DEF Dispatch, AgentCalls
  <2> QED
    BY <2>1, OutOf
<1> QED
  BY <1>1, <1>2, <1>3, <1>4, <1>5, <1>6, <1>7
-----------------------------------------------------------------------------
(* A step of process() for t, with its conversation or without.             *)
LEMMA TraceeMove ==
    ASSUME ReqInv, NEW t \in Tracees, AgentInv',
           \A d \in Clients : d # t => conv'[d] = conv[d],
           DOMAIN tr' = Tracees, \A u \in Tracees : u # t => tr'[u] = tr[u],
           rd' = rd, faults' = faults, TraceeOK(t)', FdsAccounted'
    PROVE  ReqInv'
<1>1. ASSUME NEW u \in Tracees PROVE TraceeOK(u)'
  <2>1. CASE u # t
    BY <2>1, TraceeElsewhere, RequestsAssumption DEF ReqInv
  <2> QED
    BY <2>1
<1>2. ASSUME NEW r \in Readers PROVE ReaderOK(r)'
  <2>1. conv'[r] = conv[r]
    BY RequestsAssumption
  <2> QED
    BY <2>1 DEF ReqInv, ReaderOK, Carries, IsReader
<1> QED
  BY <1>1, <1>2 DEF ReqInv

(* A step that leaves the conversations alone, and who waits for a          *)
(* descriptor.                                                              *)
LEMMA TraceeAlone ==
    ASSUME ReqInv, NEW t \in Tracees, NEW y, tr' = [tr EXCEPT ![t] = y], rd' = rd, UNCHANGED agentVars,
           TraceeOK(t)',
           conv[t].fds = 1 =>
               \/ y.pc \in {"await", "inject"} <=> tr[t].pc \in {"await", "inject"}
               \/ faults \cap {"openat2", "killed"} # {}
    PROVE  ReqInv'
<1>1. /\ conv' = conv /\ tmpDirs' = tmpDirs /\ devWhole' = devWhole /\ readOnly' = readOnly
      /\ openFds' = openFds /\ faults' = faults
  BY DEF agentVars
<1>2. DOMAIN tr' = Tracees /\ tr'[t] = y /\ \A u \in Tracees : u # t => tr'[u] = tr[u]
  BY DEF ReqInv
<1>3. AgentInv'
  BY <1>1, AgentSame DEF ReqInv, AgentInv
<1>4. FdsAccounted'
  <2>1. CASE faults \cap {"openat2", "killed"} = {}
    <3>1. Waiting' = Waiting
      BY <1>1, <1>2, <2>1 DEF Waiting
    <3> QED
      BY <1>1, <3>1, ZenonT(30) DEF ReqInv, FdsAccounted, Waiting
  <2>2. CASE faults \cap {"openat2", "killed"} # {}
    BY <1>1, <2>2 DEF FdsAccounted
  <2> QED
    BY <2>1, <2>2
<1> QED
  BY <1>1, <1>2, <1>3, <1>4, TraceeMove

(* The parts of process() for t and of its agent.                           *)
LEMMA TraceeParts ==
    ASSUME ReqInv, NEW t \in Tracees
    PROVE  /\ t \in Clients /\ IsTracee(tr[t]) /\ PhaseOK(t) /\ WorkOK(t) /\ conv[t] \in Conv
           /\ StepsOK(conv[t]) /\ ResultOK(conv[t]) /\ RunningOK(conv[t]) /\ EndedOK(conv[t]) /\ EventOK(conv[t])
           /\ DOMAIN tr = Tracees
BY RequestsAssumption DEF ReqInv, AgentInv, TraceeOK, AgentOK

(* A state of process() is as good as another of the same tracee.           *)
LEMMA TraceeNow ==
    ASSUME ReqInv, NEW t \in Tracees, NEW y, tr' = [tr EXCEPT ![t] = y], conv'[t] = conv[t], faults' = faults,
           IsTracee(y),
           y.pc \in {"process", "mount", "send"} => conv[t] = Closed,
           y.pc = "await" => conv[t].event # "none",
           conv[t].event \in {"sent", "rights"} => y.pc = "await",
           y.pc \in {"send", "await", "write", "inject"} => y.req.call \in AgentCalls,
           y.pc = "mount" => y.req.call \in {"mount", "umount2"},
           y.pc = "write" => RequestType(y.req.call) \in {"getxattr", "listxattr"},
           y.pc = "inject" => y.req.call = "openat2" /\ conv[t].event = "ok",
           y.pc \notin {"check", "respond", "idle"} => y.eff = {},
           y.pc \in {"await", "write", "inject"} => Goal(conv[t], RequestType(y.req.call)),
           Carries(conv[t]) => y.req.call = "openat2",
           \A a : \/ y.pc \in {"check", "respond"} /\ a = y.resp
                  \/ y.pc = "idle" /\ a = y.got
                  => /\ a.out = "success" /\ Needed(y.req) # {} => Needed(y.req) \cap (conv[t].done \cup y.eff) # {}
                     /\ a.out = "continue" => conv[t].done \cup y.eff = {}
                     /\ a.out = "error" => conv[t].done \cup y.eff = {} \/ "killed" \in faults \/ a.err = "chown failed",
           y.pc # "idle" => y.got = NoAnswer
    PROVE  TraceeOK(t)'
<1>1. tr'[t] = y
  BY TraceeParts, ZenonT(30)
<1>2. PICK v : v = conv[t]
  BY ZenonT(30)
<1>3. conv'[t] = v
  BY <1>2, ZenonT(30)
<1>4. IsTracee(tr[t])'
  BY <1>1, ZenonT(30) DEF IsTracee
<1>5. PhaseOK(t)'
  BY <1>1, <1>2, <1>3, ZenonT(30) DEF PhaseOK
<1>6. \A a : \/ y.pc \in {"check", "respond"} /\ a = y.resp
             \/ y.pc = "idle" /\ a = y.got
             => Tells(t, a)'
  BY <1>1, <1>2, <1>3, ZenonT(30) DEF Tells, DoneFor
<1>7. \A g : Goal(v, g) => Goal(v, g)'
  BY ZenonT(30) DEF Goal
<1>8. WorkOK(t)'
  BY <1>1, <1>2, <1>3, <1>6, <1>7, ZenonT(30) DEF WorkOK
<1> QED
  BY <1>4, <1>5, <1>8, ZenonT(30) DEF TraceeOK

(* What must be done depends on the call and on its buffer.                 *)
LEMMA NeededSame ==
    ASSUME NEW q, NEW r, q.call = r.call, q.size = r.size
    PROVE  Needed(q) = Needed(r)
BY DEF Needed

(* The request types of the agents' syscalls.                               *)
LEMMA RequestTypes ==
    /\ \A call \in AgentCalls : RequestType(call) \in SyscallTypes
    /\ \A call \in AgentCalls : RequestType(call) = "openat2" <=> call = "openat2"
BY DEF RequestType, AgentCalls, SyscallTypes

(* Nothing is told yet.                                                     *)
LEMMA NoAnswerOut == NoAnswer.out = "none"
BY OutOf DEF NoAnswer

(* A signal interrupts the tracee.                                          *)
LEMMA InterruptKeeps ==
    ASSUME ReqInv, NEW t \in Tracees, Interrupt(t), rd' = rd
    PROVE  ReqInv'
<1>1. PICK x : x = tr[t]
  OBVIOUS
<1>2. PICK y : y = [x EXCEPT !.st = "running"]
  BY ZenonT(30)
<1>3. IsTracee(x)
  BY <1>1, TraceeParts
<1>4. /\ IsTracee(y) /\ y.pc = x.pc /\ y.req = x.req /\ y.resp = x.resp /\ y.eff = x.eff /\ y.got = x.got
  BY <1>2, <1>3 DEF IsTracee
<1>5. tr' = [tr EXCEPT ![t] = y] /\ UNCHANGED agentVars
  BY <1>1, <1>2 DEF Interrupt, agentVars
<1>6. conv'[t] = conv[t] /\ faults' = faults
  BY <1>5 DEF agentVars
<1>7. PhaseOK(t) /\ WorkOK(t)
  BY TraceeParts
<1>8. TraceeOK(t)'
  <2>1. tr'[t] = y
    BY <1>5, TraceeParts
  <2>2. PICK v : v = conv[t] /\ v = conv'[t]
    BY <1>6
  <2>3. PhaseOK(t)'
    BY <1>1, <1>4, <1>7, <2>1, <2>2 DEF PhaseOK
  <2>4. \A a : Tells(t, a) => Tells(t, a)'
    BY <1>1, <1>4, <1>6, <2>1, <2>2, ZenonT(30) DEF Tells, DoneFor
  <2>5. \A g : Goal(v, g) => Goal(v, g)'
    BY <1>6 DEF Goal
  <2>6. WorkOK(t)'
    BY <1>1, <1>4, <1>7, <2>1, <2>2, <2>4, <2>5, SMTT(30) DEF WorkOK
  <2> QED
    BY <1>4, <2>1, <2>3, <2>6 DEF TraceeOK, IsTracee
<1> QED
  BY <1>1, <1>4, <1>5, <1>8, TraceeAlone, ZenonT(30)

(* A step from a place where nothing was done so far, x becomes y: no agent *)
(* has been asked.                                                          *)
LEMMA FreshMove ==
    ASSUME ReqInv, NEW t \in Tracees, NEW x, x = tr[t], x.pc \in {"process", "mount"},
           NEW y, tr' = [tr EXCEPT ![t] = y], rd' = rd, UNCHANGED agentVars, IsTracee(y),
           y.req.call = x.req.call, y.got = x.got,
           \/ y.pc \in {"mount", "send", "panic"} /\ y.eff = {}
           \/ y.pc \in {"check", "respond"},
           y.pc = "mount" => y.req.call \in {"mount", "umount2"},
           y.pc = "send" => y.req.call \in AgentCalls,
           y.pc \in {"check", "respond"} =>
               /\ y.resp.out = "success" /\ Needed(y.req) # {} => Needed(y.req) \cap y.eff # {}
               /\ y.resp.out = "continue" => y.eff = {}
               /\ y.resp.out = "error" => y.eff = {} \/ y.resp.err = "chown failed"
    PROVE  ReqInv'
<1>1. x.got = NoAnswer /\ conv[t] = Closed
  BY TraceeParts, ZenonT(30) DEF PhaseOK, WorkOK
<1>2. conv[t].event = "none" /\ conv[t].done = {} /\ conv[t].fds = 0 /\ ~Carries(conv[t])
  <2>1. Closed.event = "none" /\ Closed.done = {} /\ Closed.fds = 0
    BY ZenonT(30) DEF Closed
  <2> QED
    BY <1>1, <2>1, ClosedOK, ZenonT(30)
<1>3. conv'[t] = conv[t] /\ faults' = faults
  BY ZenonT(30) DEF agentVars
<1>4. TraceeOK(t)'
  BY <1>1, <1>2, <1>3, TraceeNow, ZenonT(30)
<1> QED
  BY <1>2, <1>4, TraceeAlone, ZenonT(30)

(* process() decides.                                                       *)
LEMMA ProcessKeeps ==
    ASSUME ReqInv, NEW t \in Tracees, Process(t), rd' = rd
    PROVE  ReqInv'
<1>1. PICK x : x = tr[t]
  OBVIOUS
<1>2. IsTracee(x) /\ x.pc = "process" /\ x.eff = {}
  BY <1>1, TraceeParts, SMTT(30) DEF Process, WorkOK
<1>3. PICK o : o = Dispatch(parser, ProcOf(x.req), Files, x.req)
  OBVIOUS
<1>4. /\ o.out \in {"unsupported", "continue", "success", "error", "mount", "agent", "panic"}
      /\ o.out = "success" => Needed(x.req) = {}
      /\ o.out = "agent" => x.req.call \in AgentCalls
      /\ o.out = "mount" => x.req.call \in {"mount", "umount2"}
  BY <1>3, DispatchOut
<1>5. PICK q : q = [call |-> x.req.call, size |-> x.req.size]
  BY ZenonT(30)
<1>6. q.call = x.req.call /\ Needed(q) = Needed(x.req)
  <2>1. q.call = x.req.call /\ q.size = x.req.size
    BY <1>5
  <2> QED
    BY <2>1, NeededSame
<1>7. ASSUME NEW pc, NEW a, Decided(t, pc, a),
             \/ pc = "respond" /\ a.out = "error"
             \/ pc = "check" /\ a.out \in {"continue", "error"}
             \/ pc = "check" /\ a.out = "success" /\ Needed(x.req) = {}
             \/ pc = "mount" /\ x.req.call \in {"mount", "umount2"}
             \/ pc = "send" /\ x.req.call \in AgentCalls
             \/ pc = "panic"
      PROVE  ReqInv'
  <2>1. PICK y : y = [x EXCEPT !.pc = pc, !.resp = a, !.req = q]
    OBVIOUS
  <2>2. tr' = [tr EXCEPT ![t] = y]
    BY <1>1, <1>5, <1>7, <2>1, ZenonT(30) DEF Decided
  <2>3. /\ IsTracee(y) /\ y.pc = pc /\ y.resp = a /\ y.req = q /\ y.eff = {} /\ y.got = x.got
    BY <1>2, <2>1, ZenonT(30) DEF IsTracee
  <2>4. UNCHANGED agentVars
    BY DEF Process
  <2> QED
    BY <1>1, <1>2, <1>6, <1>7, <2>2, <2>3, <2>4, FreshMove, ZenonT(30)
<1>8. \A e : createErrorResponse(e).out = "error"
  BY OutOf DEF createErrorResponse
<1>9. CASE ~known
  BY <1>7, <1>8, <1>9, ZenonT(30) DEF Process
<1>10. CASE known
  <2>1. CASE o.out = "unsupported"
    <3>1. Decided(t, "respond", createErrorResponse("EINVAL"))
      BY <1>1, <1>3, <1>10, <2>1 DEF Process
    <3> QED
      BY <1>7, <1>8, <3>1
  <2>2. CASE o.out \in {"continue", "success", "error"}
    <3>1. Decided(t, "check", o)
      BY <1>1, <1>3, <1>10, <2>2, ZenonT(30) DEF Process
    <3> QED
      BY <1>4, <1>7, <2>2, <3>1
  <2>3. CASE o.out = "mount"
    <3>1. Decided(t, "mount", NoAnswer)
      BY <1>1, <1>3, <1>10, <2>3 DEF Process
    <3> QED
      BY <1>4, <1>7, <2>3, <3>1
  <2>4. CASE o.out = "agent"
    <3>1. Decided(t, "send", NoAnswer)
      BY <1>1, <1>3, <1>10, <2>4 DEF Process
    <3> QED
      BY <1>4, <1>7, <2>4, <3>1
  <2>5. CASE o.out = "panic"
    <3>1. Decided(t, "panic", NoAnswer)
      BY <1>1, <1>3, <1>10, <2>5 DEF Process
    <3> QED
      BY <1>4, <1>7, <2>5, <3>1
  <2> QED
    BY <1>4, <2>1, <2>2, <2>3, <2>4, <2>5
<1> QED
  BY <1>9, <1>10

(* What the responses say.                                                  *)
LEMMA Responses ==
    /\ createSuccessResponse.out = "success" /\ createContinueResponse.out = "continue"
    /\ \A e : createErrorResponse(e).out = "error" /\ createErrorResponse(e).err = e
BY DEF createSuccessResponse, createContinueResponse, createErrorResponse, Outcome

(* The mount code does its work.                                            *)
LEMMA MountKeeps ==
    ASSUME ReqInv, NEW t \in Tracees, Mount(t), rd' = rd
    PROVE  ReqInv'
<1>1. PICK x : x = tr[t]
  OBVIOUS
<1>2. /\ IsTracee(x) /\ x.pc = "mount" /\ x.eff = {} /\ x.req.call \in {"mount", "umount2"}
      /\ UNCHANGED agentVars
  BY <1>1, TraceeParts, ZenonT(30) DEF Mount, WorkOK, PhaseOK
<1>3. Needed(x.req) = {"mount"}
  BY <1>2 DEF Needed
<1>4. ASSUME NEW pc \in {"check", "respond"}, NEW a, Goto(t, pc, a), a.out \in {"continue", "error"}
      PROVE  ReqInv'
  <2>1. PICK y : y = [x EXCEPT !.pc = pc, !.resp = a]
    OBVIOUS
  <2>2. /\ tr' = [tr EXCEPT ![t] = y] /\ IsTracee(y) /\ y.pc = pc /\ y.resp = a /\ y.req = x.req
        /\ y.eff = {} /\ y.got = x.got
    <3>1. tr' = [tr EXCEPT ![t] = y]
      BY <1>1, <1>4, <2>1, ZenonT(30) DEF Goto
    <3>2. IsTracee(y) /\ y.pc = pc /\ y.resp = a /\ y.req = x.req /\ y.eff = {} /\ y.got = x.got
      BY <1>2, <2>1, ZenonT(30) DEF IsTracee
    <3> QED
      BY <3>1, <3>2
  <2> QED
    BY <1>1, <1>2, <1>4, <2>2, FreshMove, ZenonT(30)
<1>5. ASSUME NEW y, tr' = [tr EXCEPT ![t] = y], IsTracee(y), y.pc \in {"check", "respond"},
             y.req = x.req, y.eff = {"mount"}, y.got = x.got,
             \/ y.resp.out = "success"
             \/ y.resp.out = "error" /\ y.resp.err = "chown failed"
      PROVE  ReqInv'
  BY <1>1, <1>2, <1>3, <1>5, FreshMove, ZenonT(30)
<1>6. CASE Goto(t, "check", createContinueResponse)
  BY <1>4, <1>6, Responses
<1>7. CASE tr' = [tr EXCEPT ![t].pc = "check", ![t].resp = createSuccessResponse, ![t].eff = {"mount"}]
  <2>1. PICK y : y = [x EXCEPT !.pc = "check", !.resp = createSuccessResponse, !.eff = {"mount"}]
    OBVIOUS
  <2>2. tr' = [tr EXCEPT ![t] = y]
    BY <1>1, <1>7, <2>1, ZenonT(30)
  <2>3. /\ IsTracee(y) /\ y.pc = "check" /\ y.resp = createSuccessResponse /\ y.req = x.req
        /\ y.eff = {"mount"} /\ y.got = x.got
    BY <1>2, <2>1, ZenonT(30) DEF IsTracee
  <2> QED
    BY <1>5, <2>2, <2>3, Responses, ZenonT(30)
<1>8. CASE Goto(t, "check", createErrorResponse("errno"))
  BY <1>4, <1>8, Responses
<1>9. CASE Goto(t, "respond", createErrorResponse("EINVAL"))
  BY <1>4, <1>9, Responses
<1>10. CASE \E pc \in {"check", "respond"} :
                tr' = [tr EXCEPT ![t].pc = pc, ![t].eff = {"mount"},
                                 ![t].resp = createErrorResponse("chown failed")]
  <2>1. PICK pc \in {"check", "respond"} :
                tr' = [tr EXCEPT ![t].pc = pc, ![t].eff = {"mount"},
                                 ![t].resp = createErrorResponse("chown failed")]
    BY <1>10, ZenonT(30)
  <2>2. PICK y : y = [x EXCEPT !.pc = pc, !.eff = {"mount"}, !.resp = createErrorResponse("chown failed")]
    OBVIOUS
  <2>3. tr' = [tr EXCEPT ![t] = y]
    BY <1>1, <2>1, <2>2, ZenonT(30)
  <2>4. /\ IsTracee(y) /\ y.pc = pc /\ y.resp = createErrorResponse("chown failed") /\ y.req = x.req
        /\ y.eff = {"mount"} /\ y.got = x.got
    BY <1>2, <2>2, ZenonT(30) DEF IsTracee
  <2> QED
    BY <1>5, <2>3, <2>4, Responses, ZenonT(30)
<1> QED
  BY <1>6, <1>7, <1>8, <1>9, <1>10, ZenonT(30) DEF Mount
-----------------------------------------------------------------------------
(* process() sends its request.                                             *)
LEMMA SendKeeps ==
    ASSUME ReqInv, NEW t \in Tracees, Send(t), rd' = rd
    PROVE  ReqInv'
<1>1. PICK x : x = tr[t]
  OBVIOUS
<1>2. PICK type : type = RequestType(x.req.call)
  OBVIOUS
<1>3. /\ IsTracee(x) /\ x.pc = "send" /\ x.eff = {} /\ x.got = NoAnswer /\ x.req.call \in AgentCalls
      /\ t \in Clients /\ DOMAIN tr = Tracees
      /\ UNCHANGED <<tmpDirs, devWhole, readOnly, openFds, faults>>
  BY <1>1, TraceeParts, SMTT(30) DEF Send, WorkOK, PhaseOK
<1>4. type \in SyscallTypes /\ (type = "openat2" <=> x.req.call = "openat2")
  BY <1>2, <1>3, RequestTypes
<1>5. SendRequest(t, type, "none")
  BY <1>1, <1>2 DEF Send
<1>6. /\ AgentInv' /\ \A d \in Clients : d # t => conv'[d] = conv[d]
      /\ conv[t] = Closed /\ conv'[t].event # "none" /\ conv'[t].fds = 0
      /\ type # "openat2" => ~Carries(conv'[t])
      /\ Goal(conv[t], type)'
  BY <1>3, <1>4, <1>5, SendStarts DEF ReqInv
<1>7. PICK y : y = [x EXCEPT !.pc = "await", !.resp = x.resp]
  OBVIOUS
<1>8. /\ IsTracee(y) /\ y.pc = "await" /\ y.req = x.req /\ y.eff = {} /\ y.got = NoAnswer
  BY <1>3, <1>7, ZenonT(30) DEF IsTracee
<1>9. /\ tr' = [tr EXCEPT ![t] = y] /\ tr'[t] = y /\ DOMAIN tr' = Tracees
      /\ \A u \in Tracees : u # t => tr'[u] = tr[u]
  BY <1>1, <1>3, <1>7, ZenonT(30) DEF Send, Goto
<1>10. TraceeOK(t)'
  <2>1. PICK w : w = conv'[t]
    OBVIOUS
  <2>2. PhaseOK(t)'
    BY <1>3, <1>6, <1>8, <1>9, <2>1, SMTT(30) DEF PhaseOK
  <2>3. Carries(w) => y.req.call = "openat2"
    BY <1>4, <1>6, <1>8, <2>1, SMTT(30)
  <2>4. WorkOK(t)'
    BY <1>2, <1>6, <1>8, <1>9, <2>1, <2>3, SMTT(30) DEF WorkOK
  <2> QED
    BY <1>8, <1>9, <2>2, <2>4 DEF TraceeOK, IsTracee
<1>11. FdsAccounted'
  <2>1. conv[t].fds = 0
    BY <1>6 DEF Closed
  <2>2. Waiting' = Waiting
    BY <1>3, <1>6, <1>9, <2>1, RequestsAssumption, SMTT(30) DEF Waiting
  <2> QED
    BY <1>3, <2>2, ZenonT(30) DEF ReqInv, FdsAccounted, Waiting
<1> QED
  BY <1>3, <1>6, <1>9, <1>10, <1>11, TraceeMove

(* What an answer of the agent says about what it has done.                 *)
LEMMA AnswerSays ==
    ASSUME ReqInv, NEW t \in Tracees, conv[t].event \in Answers
    PROVE  /\ conv[t].event = "infra" => conv[t].done = {} \/ "killed" \in faults
           /\ conv[t].event = "infra" => conv[t].fds = 0 \/ "killed" \in faults
           /\ conv[t].event = "error" => conv[t].done = {}
           /\ conv[t].event = "error" => conv[t].fds = 0 \/ "openat2" \in faults
           /\ conv[t].event = "ok" => conv[t].res = "ok" /\ conv[t].fd = "sent"
           /\ conv[t].done \in SUBSET Effects
<1>1. PICK v \in Conv : v = conv[t]
  BY TraceeParts
<1>2. v.fds \in {0, 1} /\ v.done \in SUBSET Effects
  BY DEF Conv
<1>3. EventOK(v) /\ ResultOK(v)
  BY <1>1, TraceeParts
<1> QED
  BY <1>1, <1>2, <1>3, SMTT(30) DEF EventOK, ResultOK

(* The agent's answer is evaluated, ...                                     *)
LEMMA AnsweredKeeps ==
    ASSUME ReqInv, NEW t \in Tracees, Answered(t), rd' = rd
    PROVE  ReqInv'
<1>1. PICK x : x = tr[t]
  OBVIOUS
<1>2. PICK type : type = RequestType(x.req.call)
  OBVIOUS
<1>3. PICK v : v = conv[t]
  OBVIOUS
<1>4. /\ IsTracee(x) /\ x.pc = "await" /\ v.event \in Answers /\ UNCHANGED agentVars
      /\ conv'[t] = conv[t] /\ faults' = faults
  BY <1>1, <1>3, TraceeParts DEF Answered, Answer, agentVars
<1>5. /\ x.eff = {} /\ x.got = NoAnswer /\ x.req.call \in AgentCalls /\ Goal(v, type)
      /\ Carries(v) => x.req.call = "openat2"
  BY <1>1, <1>2, <1>3, <1>4, TraceeParts, SMTT(30) DEF PhaseOK, WorkOK
<1>6. type \in SyscallTypes /\ (type = "openat2" <=> x.req.call = "openat2")
  BY <1>2, <1>5, RequestTypes
<1>7. /\ v.event = "infra" => (v.done = {} \/ "killed" \in faults) /\ (v.fds = 0 \/ "killed" \in faults)
      /\ v.event = "error" => v.done = {} /\ (v.fds = 0 \/ "openat2" \in faults)
      /\ v.event = "ok" => v.res = "ok"
  BY <1>3, <1>4, AnswerSays
<1>8. v.fds = 1 => x.req.call = "openat2"
  BY <1>5 DEF Carries
<1>9. v.event \notin {"none", "sent", "rights"}
  BY <1>4 DEF Answers
<1>10. ASSUME NEW pc, NEW a, Goto(t, pc, a),
              \/ pc = "inject" /\ type = "openat2" /\ v.event = "ok"
              \/ pc = "write" /\ type \in {"getxattr", "listxattr"}
              \/ /\ pc \in {"check", "respond"}
                 /\ v.fds = 1 => faults \cap {"openat2", "killed"} # {}
                 /\ a.out = "success" /\ Needed(x.req) # {} => Needed(x.req) \cap v.done # {}
                 /\ a.out # "continue"
                 /\ a.out = "error" => v.done = {} \/ "killed" \in faults
       PROVE  ReqInv'
  <2>1. PICK y : y = [x EXCEPT !.pc = pc, !.resp = a]
    OBVIOUS
  <2>2. tr' = [tr EXCEPT ![t] = y]
    BY <1>1, <1>10, <2>1, ZenonT(30) DEF Goto
  <2>3. IsTracee(y) /\ y.pc = pc /\ y.resp = a /\ y.req = x.req /\ y.eff = {} /\ y.got = NoAnswer
    BY <1>4, <1>5, <2>1, ZenonT(30) DEF IsTracee
  <2>4. TraceeOK(t)'
    <3>1. CASE pc \in {"inject", "write"}
      BY <1>2, <1>3, <1>4, <1>5, <1>6, <1>9, <1>10, <2>2, <2>3, <3>1, TraceeNow, ZenonT(30)
    <3>2. CASE pc \in {"check", "respond"}
      <4>1. v.done \cup y.eff = v.done
        BY <2>3
      <4> QED
        BY <1>2, <1>3, <1>4, <1>5, <1>6, <1>9, <1>10, <2>2, <2>3, <3>2, <4>1, TraceeNow, ZenonT(30)
    <3> QED
      BY <1>10, <3>1, <3>2
  <2>5. v.fds = 1 => \/ y.pc \in {"await", "inject"} <=> x.pc \in {"await", "inject"}
                     \/ faults \cap {"openat2", "killed"} # {}
    BY <1>4, <1>6, <1>8, <1>10, <2>3
  <2> QED
    BY <1>1, <1>3, <1>4, <2>2, <2>4, <2>5, TraceeAlone, ZenonT(30)
<1>11. CASE v.event = "infra"
  <2>1. Goto(t, "respond", createErrorResponse("EINVAL"))
    BY <1>3, <1>11 DEF Answered, Answer
  <2> QED
    BY <1>7, <1>10, <1>11, <2>1, Responses
<1>12. CASE v.event = "error"
  <2>1. Goto(t, "check", createErrorResponse("errno"))
    BY <1>3, <1>12 DEF Answered, Answer
  <2> QED
    BY <1>7, <1>10, <1>12, <2>1, Responses
<1>13. CASE v.event = "ok"
  <2>1. CASE type = "openat2"
    <3>1. Goto(t, "inject", tr[t].resp)
      BY <1>1, <1>2, <1>3, <1>13, <2>1 DEF Answered, Answer
    <3> QED
      BY <1>10, <1>13, <2>1, <3>1
  <2>2. CASE type \in {"getxattr", "listxattr"} /\ x.req.size > 0
    <3>1. Goto(t, "write", tr[t].resp)
      BY <1>1, <1>2, <1>3, <1>13, <2>2 DEF Answered, Answer
    <3> QED
      BY <1>10, <2>2, <3>1
  <2>3. CASE type # "openat2" /\ ~(type \in {"getxattr", "listxattr"} /\ x.req.size > 0)
    <3>1. Goto(t, "check", createSuccessResponse)
      BY <1>1, <1>2, <1>3, <1>13, <2>3 DEF Answered, Answer
    <3>2. {type} \cap Effects \subseteq v.done
      BY <1>5, <1>7, <1>13 DEF Goal
    <3>3. Needed(x.req) # {} => Needed(x.req) \cap v.done # {}
      <4>1. CASE type \in {"setxattr", "removexattr"}
        <5>1. type \in v.done
          BY <3>2, <4>1, ZenonT(30) DEF Effects
        <5>2. Needed(x.req) = {type}
          BY <1>2, <1>5, <4>1 DEF Needed, RequestType, AgentCalls
        <5> QED
          BY <5>1, <5>2
      <4>2. CASE type \in {"getxattr", "listxattr"}
        <5>1. ~(x.req.size > 0)
          BY <2>3, <4>2
        <5>2. Needed(x.req) = {}
          BY <1>2, <1>5, <4>2, <5>1 DEF Needed, RequestType, AgentCalls
        <5> QED
          BY <5>2
      <4> QED
        BY <1>6, <2>3, <4>1, <4>2 DEF SyscallTypes
    <3> QED
      BY <1>6, <1>8, <1>10, <2>3, <3>1, <3>3, Responses
  <2> QED
    BY <2>1, <2>2, <2>3
<1> QED
  BY <1>4, <1>11, <1>12, <1>13 DEF Answers

(* What an agent that did no more than read has done: nothing.              *)
LEMMA NothingDone ==
    ASSUME NEW v \in Conv, NEW g, Goal(v, g), g \notin Effects
    PROVE  v.done = {}
<1>1. v.done \in SUBSET Effects
  BY DEF Conv
<1> QED
  BY <1>1 DEF Goal

(* ... its data written to the tracee, ...                                  *)
LEMMA WriteBackKeeps ==
    ASSUME ReqInv, NEW t \in Tracees, WriteBack(t), rd' = rd
    PROVE  ReqInv'
<1>1. PICK x : x = tr[t]
  OBVIOUS
<1>2. PICK v \in Conv : v = conv[t]
  BY TraceeParts
<1>3. /\ IsTracee(x) /\ x.pc = "write" /\ UNCHANGED agentVars /\ conv'[t] = conv[t] /\ faults' = faults
  BY <1>1, TraceeParts DEF WriteBack, agentVars
<1>4. /\ x.eff = {} /\ x.got = NoAnswer /\ x.req.call \in AgentCalls /\ Goal(v, RequestType(x.req.call))
      /\ RequestType(x.req.call) \in {"getxattr", "listxattr"}
      /\ Carries(v) => x.req.call = "openat2"
      /\ v.event \notin {"sent", "rights"}
  BY <1>1, <1>2, <1>3, TraceeParts, SMTT(30) DEF PhaseOK, WorkOK
<1>5. v.done = {}
  BY <1>4, NothingDone, SMTT(30) DEF Effects
<1>6. Needed(x.req) \in {{}, {"written", "empty"}}
  BY <1>4 DEF Needed, RequestType, AgentCalls
<1>7. ASSUME NEW y, tr' = [tr EXCEPT ![t] = y], IsTracee(y), y.pc = "check", y.req = x.req, y.got = NoAnswer,
             \/ y.eff \in {{"written"}, {"empty"}} /\ y.resp = createSuccessResponse
             \/ y.eff = {} /\ y.resp = createErrorResponse("ENOTSUP")
      PROVE  ReqInv'
  <2>1. /\ y.resp.out = "success" /\ Needed(y.req) # {} => Needed(y.req) \cap (v.done \cup y.eff) # {}
        /\ y.resp.out # "continue"
        /\ y.resp.out = "error" => v.done \cup y.eff = {}
    <3>1. CASE y.eff \in {{"written"}, {"empty"}} /\ y.resp = createSuccessResponse
      BY <1>6, <1>7, <3>1, Responses, SMTT(30)
    <3>2. CASE y.eff = {} /\ y.resp = createErrorResponse("ENOTSUP")
      BY <1>5, <3>2, Responses, SMTT(30)
    <3> QED
      BY <1>7, <3>1, <3>2, SMTT(30)
  <2>2. TraceeOK(t)'
    BY <1>2, <1>3, <1>4, <1>7, <2>1, TraceeNow, ZenonT(30)
  <2> QED
    BY <1>1, <1>2, <1>3, <1>7, <2>2, TraceeAlone, ZenonT(30)
<1>8. ASSUME NEW e \in {"written", "empty"},
             tr' = [tr EXCEPT ![t].pc = "check", ![t].resp = createSuccessResponse, ![t].eff = {e}]
      PROVE  ReqInv'
  <2>1. PICK y : y = [x EXCEPT !.pc = "check", !.resp = createSuccessResponse, !.eff = {e}]
    OBVIOUS
  <2>2. tr' = [tr EXCEPT ![t] = y]
    BY <1>1, <1>8, <2>1, ZenonT(30)
  <2>3. /\ IsTracee(y) /\ y.pc = "check" /\ y.resp = createSuccessResponse /\ y.req = x.req
        /\ y.eff = {e} /\ y.got = NoAnswer
    BY <1>3, <1>4, <2>1, ZenonT(30) DEF IsTracee
  <2>4. y.eff \in {{"written"}, {"empty"}}
    BY <2>3
  <2> QED
    BY <1>7, <2>2, <2>3, <2>4, ZenonT(30)
<1>9. CASE Goto(t, "check", createErrorResponse("ENOTSUP"))
  <2>1. PICK y : y = [x EXCEPT !.pc = "check", !.resp = createErrorResponse("ENOTSUP")]
    OBVIOUS
  <2>2. tr' = [tr EXCEPT ![t] = y]
    BY <1>1, <1>9, <2>1, ZenonT(30) DEF Goto
  <2>3. /\ IsTracee(y) /\ y.pc = "check" /\ y.resp = createErrorResponse("ENOTSUP") /\ y.req = x.req
        /\ y.eff = {} /\ y.got = NoAnswer
    BY <1>3, <1>4, <2>1, ZenonT(30) DEF IsTracee
  <2> QED
    BY <1>7, <2>2, <2>3, ZenonT(30)
<1> QED
  BY <1>8, <1>9 DEF WriteBack


(* ... or its descriptor injected and closed.                               *)
LEMMA InjectFdKeeps ==
    ASSUME ReqInv, NEW t \in Tracees, InjectFd(t), rd' = rd
    PROVE  ReqInv'
<1>1. PICK x : x = tr[t]
  OBVIOUS
<1>2. PICK v \in Conv : v = conv[t]
  BY TraceeParts
<1>3. /\ IsTracee(x) /\ x.pc = "inject" /\ DOMAIN tr = Tracees /\ t \in Clients
      /\ UNCHANGED <<conv, tmpDirs, devWhole, readOnly, faults>> /\ openFds' = openFds - 1
  BY <1>1, TraceeParts DEF InjectFd
<1>4. /\ x.eff = {} /\ x.got = NoAnswer /\ x.req.call = "openat2" /\ Goal(v, RequestType(x.req.call))
      /\ v.event = "ok"
  BY <1>1, <1>2, <1>3, TraceeParts, ZenonT(30) DEF PhaseOK, WorkOK
<1>5. Goal(v, "openat2") /\ Needed(x.req) = {"injected"}
  BY <1>4 DEF RequestType, Needed
<1>6. v.done = {}
  BY <1>5, NothingDone DEF Effects
<1>7. v.fds = 1 \/ "killed" \in faults
  <2>1. v.res = "ok" /\ v.fd = "sent"
    BY <1>2, <1>4, AnswerSays DEF Answers
  <2> QED
    BY <1>4, <1>5, <2>1, SMTT(30) DEF Goal, Brings
<1>8. ASSUME NEW y, tr' = [tr EXCEPT ![t] = y], IsTracee(y), y.pc = "check", y.req = x.req, y.got = NoAnswer,
             \/ y.eff = {"injected"} /\ y.resp = createSuccessResponse
             \/ y.eff = {} /\ y.resp = createErrorResponse("EINVAL")
      PROVE  ReqInv'
  <2>1. /\ y.resp.out = "success" /\ Needed(y.req) # {} => Needed(y.req) \cap (v.done \cup y.eff) # {}
        /\ y.resp.out # "continue"
        /\ y.resp.out = "error" => v.done \cup y.eff = {}
    <3>1. CASE y.eff = {"injected"} /\ y.resp = createSuccessResponse
      BY <1>5, <1>8, <3>1, Responses, SMTT(30)
    <3>2. CASE y.eff = {} /\ y.resp = createErrorResponse("EINVAL")
      BY <1>6, <3>2, Responses, SMTT(30)
    <3> QED
      BY <1>8, <3>1, <3>2, SMTT(30)
  <2>2. TraceeOK(t)'
    BY <1>2, <1>3, <1>4, <1>8, <2>1, TraceeNow, ZenonT(30)
  <2>3. DOMAIN tr' = Tracees /\ tr'[t] = y /\ \A u \in Tracees : u # t => tr'[u] = tr[u]
    BY <1>3, <1>8, SMTT(30)
  <2>4. AgentInv'
    <3>1. openFds' \in Int
      BY <1>3 DEF ReqInv, AgentInv
    <3> QED
      BY <1>3, <3>1, AgentSame DEF ReqInv
  <2>5. FdsAccounted'
    <3>1. CASE "killed" \in faults
      BY <1>3, <3>1 DEF FdsAccounted
    <3>2. CASE v.fds = 1
      <4>1. Waiting' = Waiting \ {t} /\ t \in Waiting
        BY <1>1, <1>2, <1>3, <1>8, <2>3, <3>2, SMTT(30) DEF Waiting
      <4>2. Cardinality(Waiting') = Cardinality(Waiting) - 1
        BY <4>1, WaitingFinite, FS_RemoveElement, ZenonT(30)
      <4> QED
        BY <1>3, <4>2, SMTT(30) DEF ReqInv, FdsAccounted, Waiting
    <3> QED
      BY <1>7, <3>1, <3>2
  <2> QED
    BY <1>3, <2>2, <2>3, <2>4, <2>5, TraceeMove, SMTT(30)
<1>9. CASE tr' = [tr EXCEPT ![t].pc = "check", ![t].resp = createSuccessResponse, ![t].eff = {"injected"}]
  <2>1. PICK y : y = [x EXCEPT !.pc = "check", !.resp = createSuccessResponse, !.eff = {"injected"}]
    OBVIOUS
  <2>2. tr' = [tr EXCEPT ![t] = y]
    BY <1>1, <1>9, <2>1, ZenonT(30)
  <2>3. /\ IsTracee(y) /\ y.pc = "check" /\ y.resp = createSuccessResponse /\ y.req = x.req
        /\ y.eff = {"injected"} /\ y.got = NoAnswer
    BY <1>3, <1>4, <2>1, ZenonT(30) DEF IsTracee
  <2> QED
    BY <1>8, <2>2, <2>3, ZenonT(30)
<1>10. CASE Goto(t, "check", createErrorResponse("EINVAL"))
  <2>1. PICK y : y = [x EXCEPT !.pc = "check", !.resp = createErrorResponse("EINVAL")]
    OBVIOUS
  <2>2. tr' = [tr EXCEPT ![t] = y]
    BY <1>1, <1>10, <2>1, ZenonT(30) DEF Goto
  <2>3. /\ IsTracee(y) /\ y.pc = "check" /\ y.resp = createErrorResponse("EINVAL") /\ y.req = x.req
        /\ y.eff = {} /\ y.got = NoAnswer
    BY <1>3, <1>4, <2>1, ZenonT(30) DEF IsTracee
  <2> QED
    BY <1>8, <2>2, <2>3, ZenonT(30)
<1> QED
  BY <1>9, <1>10 DEF InjectFd

(* The answer is checked and given; what it tells stays.                    *)
LEMMA AnswerMove ==
    ASSUME ReqInv, NEW t \in Tracees, NEW x, x = tr[t], x.pc \in {"check", "respond"},
           NEW y, tr' = [tr EXCEPT ![t] = y], rd' = rd, UNCHANGED agentVars, IsTracee(y),
           y.pc \in {"respond", "idle"}, y.req = x.req, y.eff = x.eff, y.resp = x.resp,
           y.pc = "respond" => y.got = NoAnswer, y.got \in {x.resp, NoAnswer}
    PROVE  ReqInv'
<1>1. PICK v : v = conv[t]
  OBVIOUS
<1>2. conv'[t] = conv[t] /\ faults' = faults
  BY DEF agentVars
<1>3. /\ x.got = NoAnswer /\ Tells(t, x.resp) /\ v.event \notin {"sent", "rights"}
      /\ Carries(v) => x.req.call = "openat2"
  BY <1>1, TraceeParts, ZenonT(30) DEF PhaseOK, WorkOK
<1>4. ASSUME NEW a, a \in {x.resp, NoAnswer}
      PROVE  /\ a.out = "success" /\ Needed(y.req) # {} => Needed(y.req) \cap (v.done \cup y.eff) # {}
             /\ a.out = "continue" => v.done \cup y.eff = {}
             /\ a.out = "error" => v.done \cup y.eff = {} \/ "killed" \in faults \/ a.err = "chown failed"
  <2>1. CASE a = x.resp
    BY <1>1, <1>3, <2>1, ZenonT(30) DEF Tells, DoneFor
  <2>2. CASE a = NoAnswer
    BY <2>2, NoAnswerOut
  <2> QED
    BY <1>4, <2>1, <2>2, ZenonT(30)
<1>5. TraceeOK(t)'
  BY <1>1, <1>2, <1>3, <1>4, TraceeNow, ZenonT(30)
<1> QED
  BY <1>5, TraceeAlone, ZenonT(30)

(* The notification is checked, ...                                         *)
LEMMA CheckKeeps ==
    ASSUME ReqInv, NEW t \in Tracees, Check(t), rd' = rd
    PROVE  ReqInv'
<1>1. PICK x : x = tr[t]
  OBVIOUS
<1>2. IsTracee(x) /\ x.pc = "check" /\ UNCHANGED agentVars /\ x.got = NoAnswer
  BY <1>1, TraceeParts, SMTT(30) DEF Check, WorkOK
<1>3. PICK pc \in {"respond", "idle"} : Goto(t, pc, x.resp)
  BY <1>1 DEF Check
<1>4. PICK y : y = [x EXCEPT !.pc = pc, !.resp = x.resp]
  OBVIOUS
<1>5. tr' = [tr EXCEPT ![t] = y]
  BY <1>1, <1>3, <1>4, ZenonT(30) DEF Goto
<1>6. IsTracee(y) /\ y.pc = pc /\ y.resp = x.resp /\ y.req = x.req /\ y.eff = x.eff /\ y.got = NoAnswer
  BY <1>2, <1>4, ZenonT(30) DEF IsTracee
<1> QED
  BY <1>1, <1>2, <1>5, <1>6, AnswerMove, ZenonT(30)

(* ... and answered.                                                        *)
LEMMA NotifRespondKeeps ==
    ASSUME ReqInv, NEW t \in Tracees, NotifRespond(t), rd' = rd
    PROVE  ReqInv'
<1>1. PICK x : x = tr[t]
  OBVIOUS
<1>2. IsTracee(x) /\ x.pc = "respond" /\ UNCHANGED agentVars
  BY <1>1, TraceeParts DEF NotifRespond
<1>3. PICK a : a = IF x.st = "blocked" THEN x.resp ELSE NoAnswer
  OBVIOUS
<1>4. PICK y : y = [x EXCEPT !.pc = "idle", !.st = "running", !.got = a]
  OBVIOUS
<1>5. tr' = [tr EXCEPT ![t] = y]
  BY <1>1, <1>3, <1>4, ZenonT(30) DEF NotifRespond
<1>6. IsTracee(y) /\ y.pc = "idle" /\ y.resp = x.resp /\ y.req = x.req /\ y.eff = x.eff /\ y.got = a
  BY <1>2, <1>4, ZenonT(30) DEF IsTracee
<1>7. a \in {x.resp, NoAnswer}
  BY <1>3
<1> QED
  BY <1>1, <1>2, <1>5, <1>6, <1>7, AnswerMove, ZenonT(30)

(* A tracee issues the next syscall.                                        *)
LEMMA TrapKeeps ==
    ASSUME ReqInv, NEW t \in Tracees, NEW r, Trap(t, r), rd' = rd
    PROVE  ReqInv'
<1>1. /\ tr[t].pc = "idle" /\ conv' = [conv EXCEPT ![t] = Closed]
      /\ UNCHANGED <<tmpDirs, devWhole, readOnly, openFds, faults>> /\ t \in Clients /\ DOMAIN tr = Tracees
  BY TraceeParts DEF Trap
<1>2. conv[t].event \notin {"sent", "rights"}
  BY <1>1, TraceeParts, SMTT(30) DEF PhaseOK
<1>3. AgentInv' /\ conv'[t] = Closed /\ \A d \in Clients : d # t => conv'[d] = conv[d]
  BY <1>1, <1>2, Forgotten, ZenonT(30) DEF ReqInv
<1>4. PICK y : y = [Idle EXCEPT !.st = "blocked", !.pc = "process", !.req = r]
  OBVIOUS
<1>5. IsTracee(y) /\ y.pc = "process" /\ y.eff = {} /\ y.got = NoAnswer
  BY <1>4, ZenonT(30) DEF IsTracee, Idle
<1>6. DOMAIN tr' = Tracees /\ tr'[t] = y /\ \A u \in Tracees : u # t => tr'[u] = tr[u]
  BY <1>1, <1>4 DEF Trap
<1>7. TraceeOK(t)'
  <2>1. Closed.event = "none"
    BY DEF Closed
  <2>2. PhaseOK(t)'
    BY <1>3, <1>5, <1>6, <2>1, SMTT(30) DEF PhaseOK
  <2>3. WorkOK(t)'
    BY <1>3, <1>5, <1>6, ClosedOK, ZenonT(30) DEF WorkOK
  <2> QED
    BY <1>5, <1>6, <2>2, <2>3 DEF TraceeOK, IsTracee
<1>8. FdsAccounted'
  <2>1. Waiting' = Waiting
    BY <1>1, <1>3, <1>5, <1>6, RequestsAssumption DEF Waiting
  <2> QED
    BY <1>1, <2>1, ZenonT(30) DEF ReqInv, FdsAccounted, Waiting
<1> QED
  BY <1>1, <1>3, <1>6, <1>7, <1>8, TraceeMove, SMTT(30)

(* Every step of the syscall tracer.                                        *)
LEMMA SyscallsKeep == ReqInv /\ SyscallSteps => ReqInv'
<1> SUFFICES ASSUME ReqInv, NEW t \in Tracees, UNCHANGED fuseVars,
                    Process(t) \/ AfterDecision(t) \/ Interrupt(t) \/ \E r \in Calls(view, t) : Trap(t, r)
             PROVE  ReqInv'
  BY DEF SyscallSteps
<1>1. rd' = rd
  BY DEF fuseVars
<1>2. CASE AfterDecision(t)
  BY <1>1, <1>2, MountKeeps, SendKeeps, AnsweredKeeps, WriteBackKeeps, InjectFdKeeps, CheckKeeps,
     NotifRespondKeeps DEF AfterDecision
<1> QED
  BY <1>1, <1>2, ProcessKeeps, InterruptKeeps, TrapKeeps
-----------------------------------------------------------------------------
(* A step of a file operation of r, with its conversation or without.       *)
LEMMA ReaderMove ==
    ASSUME ReqInv, NEW r \in Readers, AgentInv',
           \A d \in Clients : d # r => conv'[d] = conv[d],
           NEW y, rd' = [rd EXCEPT ![r] = y], tr' = tr,
           faults' = faults, openFds' = openFds, IsReader(y),
           y.op \in {"none", "lookup", "open", "read", "write", "readdir", "readlink", "create", "created"},
           y.op = "none" => y.by = "none",
           y.by # "agent" => conv'[r] = Closed,
           ~Carries(conv'[r])
    PROVE  ReqInv'
<1>1. DOMAIN rd' = Readers /\ rd'[r] = y /\ \A q \in Readers : q # r => rd'[q] = rd[q]
  BY DEF ReqInv
<1>2. ASSUME NEW t \in Tracees PROVE conv'[t] = conv[t] /\ TraceeOK(t)'
  <2>1. conv'[t] = conv[t]
    BY RequestsAssumption
  <2> QED
    BY <2>1, TraceeElsewhere, SMTT(30) DEF ReqInv
<1>3. ASSUME NEW q \in Readers PROVE ReaderOK(q)'
  <2>1. CASE q = r
    BY <1>1, <2>1, SMTT(30) DEF ReaderOK, Carries, IsReader
  <2>2. CASE q # r
    <3>1. conv'[q] = conv[q] /\ rd'[q] = rd[q]
      BY <1>1, <2>2, RequestsAssumption, SMTT(30)
    <3> QED
      BY <3>1, SMTT(30) DEF ReqInv, ReaderOK, Carries, IsReader
  <2> QED
    BY <2>1, <2>2
<1>4. FdsAccounted'
  <2>1. Waiting' = Waiting
    BY <1>2, SMTT(30) DEF Waiting
  <2> QED
    BY <2>1, ZenonT(30) DEF ReqInv, FdsAccounted, Waiting
<1> QED
  BY <1>1, <1>2, <1>3, <1>4, SMTT(30) DEF ReqInv

(* The parts of a file operation.                                           *)
LEMMA ReaderParts ==
    ASSUME ReqInv, NEW r \in Readers
    PROVE  /\ r \in Clients /\ IsReader(rd[r]) /\ conv[r] \in Conv /\ DOMAIN rd = Readers
           /\ rd[r].op \in {"none", "lookup", "open", "read", "write", "readdir", "readlink", "create", "created"}
           /\ rd[r].op = "none" => rd[r].by = "none"
           /\ rd[r].by # "agent" => conv[r] = Closed
           /\ ~Carries(conv[r])
BY RequestsAssumption, SMTT(30) DEF ReqInv, AgentInv, ReaderOK

(* A request that arrives finds no agent.                                   *)
LEMMA AskMove ==
    ASSUME ReqInv, NEW r \in Readers, rd[r].op = "none", NEW y, rd' = [rd EXCEPT ![r] = y],
           tr' = tr, UNCHANGED agentVars, IsReader(y),
           y.op \in {"none", "lookup", "open", "read", "write", "readdir", "readlink", "create", "created"},
           y.op = "none" => y.by = "none"
    PROVE  ReqInv'
<1>1. /\ conv' = conv /\ tmpDirs' = tmpDirs /\ devWhole' = devWhole /\ readOnly' = readOnly
      /\ openFds' = openFds /\ faults' = faults
  BY DEF agentVars
<1>2. conv[r] = Closed /\ r \in Clients /\ ~Carries(conv[r])
  BY ReaderParts, SMTT(30)
<1>3. AgentInv'
  BY <1>1, AgentSame DEF ReqInv, AgentInv
<1> QED
  BY <1>1, <1>2, <1>3, ReaderMove, ZenonT(30)

(* A file operation arrives, ...                                            *)
LEMMA RequestKeeps ==
    ASSUME ReqInv, NEW r \in Readers, tr' = tr,
           NEW op \in {"lookup", "open", "read", "write", "readdir", "readlink", "create"},
           NEW path, NEW by, Request(r, op, path, by)
    PROVE  ReqInv'
<1>1. PICK x : x = rd[r]
  OBVIOUS
<1>2. x.op = "none" /\ UNCHANGED agentVars /\ IsReader(x)
  BY <1>1, ReaderParts DEF Request
<1>3. PICK y : y = [x EXCEPT !.op = op, !.path = path, !.by = by, !.got = "none", !.names = {}]
  OBVIOUS
<1>4. rd' = [rd EXCEPT ![r] = y]
  BY <1>1, <1>3, ZenonT(30) DEF Request
<1>5. IsReader(y) /\ y.op = op
  BY <1>2, <1>3, ZenonT(30) DEF IsReader
<1> QED
  BY <1>1, <1>2, <1>4, <1>5, AskMove, ZenonT(30)

(* ... whichever it is.                                                     *)
LEMMA AskFileKeeps ==
    ASSUME ReqInv, NEW r \in Readers, AskFile(r), tr' = tr
    PROVE  ReqInv'
<1>1. ASSUME NEW name, Lookup(r, name) \/ Create(r, name) PROVE ReqInv'
  BY <1>1, RequestKeeps, ZenonT(30) DEF Lookup, Create
<1>2. ASSUME NEW b, Open(r, b) PROVE ReqInv'
  BY <1>2, RequestKeeps DEF Open
<1>3. CASE Read(r) \/ Write(r) \/ Readlink(r)
  BY <1>3, RequestKeeps, SMTT(30) DEF Read, Write, Readlink
<1>4. CASE ReadDirAll(r)
  BY <1>4, RequestKeeps, SMTT(30) DEF ReadDirAll
<1>5. PICK x : x = rd[r]
  OBVIOUS
<1>6. IsReader(x) /\ (x.op = "none" => x.by = "none")
  BY <1>5, ReaderParts
<1>7. ASSUME NEW b \in BOOLEAN, Setattr(r, b) PROVE ReqInv'
  <2>1. PICK y : y = [x EXCEPT !.got = IF b THEN "ok" ELSE "EPERM", !.names = {}]
    OBVIOUS
  <2>2. rd' = [rd EXCEPT ![r] = y] /\ x.op = "none" /\ UNCHANGED agentVars
    BY <1>5, <1>7, <2>1, ZenonT(30) DEF Setattr
  <2>3. IsReader(y) /\ y.op = "none" /\ y.by = "none"
    BY <1>6, <2>1, <2>2, ZenonT(30) DEF IsReader
  <2> QED
    BY <1>5, <2>2, <2>3, AskMove, ZenonT(30)
<1>8. CASE Return(r)
  <2>1. PICK d : rd' = [rd EXCEPT ![r] = In(d)]
    BY <1>8, ZenonT(30) DEF Return
  <2>2. PICK y : y = In(d)
    OBVIOUS
  <2>3. IsReader(y) /\ y.op = "none" /\ y.by = "none"
    BY <2>2 DEF In, IsReader
  <2> QED
    BY <1>8, <2>1, <2>2, <2>3, AskMove, ZenonT(30) DEF Return
<1> QED
  BY <1>1, <1>2, <1>3, <1>4, <1>7, <1>8 DEF AskFile

(* What is mounted, and what is asked for.                                  *)
LEMMA Remounts == \A path : checkProcAndSysRemount(path) \in {"none", "procfs", "sysfs"}
BY DEF checkProcAndSysRemount

(* The handler enters the namespaces of the container.                      *)
LEMMA EnterKeeps ==
    ASSUME ReqInv, NEW r \in Readers, Enter(r), tr' = tr
    PROVE  ReqInv'
<1>1. PICK x : x = rd[r]
  OBVIOUS
<1>2. PICK fs \in {"none", "procfs", "sysfs"} : fs = checkProcAndSysRemount(x.path)
  BY Remounts
<1>3. PICK type : type = CASE x.op = "create" -> "open" [] x.op = "created" -> "lookup"
                           [] OTHER -> x.op
  OBVIOUS
<1>4. /\ IsReader(x) /\ x.by \in {"pass", "cntr"} /\ x.op # "none" /\ r \in Clients
      /\ x.op \in {"none", "lookup", "open", "read", "write", "readdir", "readlink", "create", "created"}
      /\ UNCHANGED <<tmpDirs, devWhole, readOnly, openFds, faults>>
  BY <1>1, ReaderParts DEF Enter
<1>5. type \in FileTypes /\ type # "openat2"
  BY <1>3, <1>4 DEF FileTypes
<1>6. SendRequest(r, type, fs)
  BY <1>1, <1>2, <1>3 DEF Enter
<1>7. /\ AgentInv' /\ \A d \in Clients : d # r => conv'[d] = conv[d]
      /\ ~Carries(conv'[r])
  BY <1>4, <1>5, <1>6, SendStarts, SMTT(30) DEF ReqInv
<1>8. PICK y : y = [x EXCEPT !.by = "agent"]
  BY ZenonT(30)
<1>9. rd' = [rd EXCEPT ![r] = y]
  BY <1>1, <1>8 DEF Enter
<1>10. IsReader(y) /\ y.op = x.op /\ y.by = "agent"
  BY <1>4, <1>8 DEF IsReader
<1> QED
  BY <1>4, <1>7, <1>9, <1>10, ReaderMove, ZenonT(30)

(* The operation is over, or goes on without the agent it had.              *)
LEMMA OverMove ==
    ASSUME ReqInv, NEW r \in Readers, Done(r) \/ rd[r].by = "cntr", conv' = [conv EXCEPT ![r] = Closed],
           UNCHANGED <<tmpDirs, devWhole, readOnly, openFds, faults>>, tr' = tr,
           NEW y, rd' = [rd EXCEPT ![r] = y], IsReader(y),
           y.op \in {"none", "created"}, y.op = "none" => y.by = "none"
    PROVE  ReqInv'
<1>1. conv[r].event \notin {"sent", "rights"}
  <2>1. Closed.event = "none"
    BY DEF Closed
  <2> QED
    BY <2>1, ReaderParts DEF Done, Answer, Answers
<1>2. r \in Clients
  BY ReaderParts
<1>3. AgentInv' /\ conv'[r] = Closed /\ \A d \in Clients : d # r => conv'[d] = conv[d]
  BY <1>1, <1>2, Forgotten, ZenonT(30) DEF ReqInv
<1> QED
  BY <1>3, ClosedOK, ReaderMove, ZenonT(30)

(* A file operation is over.                                                *)
LEMMA SettleKeeps ==
    ASSUME ReqInv, NEW r \in Readers, Done(r) \/ rd[r].by = "cntr", tr' = tr,
           NEW new, Settle(r, new), IsReader(new)
    PROVE  ReqInv'
<1>1. PICK y : y = [new EXCEPT !.op = "none", !.path = <<>>, !.by = "none"]
  OBVIOUS
<1>2. /\ rd' = [rd EXCEPT ![r] = y] /\ conv' = [conv EXCEPT ![r] = Closed]
      /\ UNCHANGED <<tmpDirs, devWhole, readOnly, openFds, faults>>
  BY <1>1 DEF Settle
<1>3. IsReader(y) /\ y.op = "none" /\ y.by = "none"
  BY <1>1, ZenonT(30) DEF IsReader
<1> QED
  BY <1>2, <1>3, OverMove, ZenonT(30)

(* Every step that serves a file operation.                                 *)
LEMMA ServeFileKeeps ==
    ASSUME ReqInv, NEW r \in Readers, ServeFile(r), tr' = tr
    PROVE  ReqInv'
<1>1. PICK x : x = rd[r]
  OBVIOUS
<1>2. IsReader(x)
  BY <1>1, ReaderParts
<1>3. ASSUME NEW g, Settle(r, [rd[r] EXCEPT !.got = g]), Done(r) \/ rd[r].by = "cntr" PROVE ReqInv'
  <2>1. PICK y : y = [x EXCEPT !.got = g]
    BY ZenonT(30)
  <2>2. IsReader(y)
    BY <1>2, <2>1 DEF IsReader
  <2>3. Settle(r, y)
    BY <1>1, <1>3, <2>1
  <2> QED
    BY <1>3, <2>2, <2>3, SettleKeeps
<1>4. ASSUME NEW a, NEW k, NEW n, NEW g, Done(r),
             Settle(r, [rd[r] EXCEPT !.at = a, !.kind = k, !.node = n, !.got = g])
      PROVE  ReqInv'
  <2>1. PICK y : y = [x EXCEPT !.at = a, !.kind = k, !.node = n, !.got = g]
    OBVIOUS
  <2>2. IsReader(y)
    BY <1>2, <2>1, ZenonT(30) DEF IsReader
  <2>3. Settle(r, y)
    BY <1>1, <1>4, <2>1
  <2> QED
    BY <1>4, <2>2, <2>3, SettleKeeps
<1>5. ASSUME NEW g, NEW n, Settle(r, [rd[r] EXCEPT !.got = g, !.names = n]), Done(r) PROVE ReqInv'
  <2>1. PICK y : y = [x EXCEPT !.got = g, !.names = n]
    OBVIOUS
  <2>2. IsReader(y)
    BY <1>2, <2>1, ZenonT(30) DEF IsReader
  <2>3. Settle(r, y)
    BY <1>1, <1>5, <2>1
  <2> QED
    BY <1>5, <2>2, <2>3, SettleKeeps
<1>6. CASE ServeKept(r)
  BY <1>3, <1>6 DEF ServeKept
<1>7. CASE EndLookup(r)
  BY <1>3, <1>4, <1>7, ZenonT(30) DEF EndLookup
<1>8. CASE EndCreate(r)
  <2>1. CASE Succeeded(r)
    <3>1. PICK b : b = LookupBy(LookupHandler(x.path), x.path)
      OBVIOUS
    <3>2. PICK y : y = [x EXCEPT !.op = "created", !.by = b]
      OBVIOUS
    <3>3. /\ rd' = [rd EXCEPT ![r] = y] /\ conv' = [conv EXCEPT ![r] = Closed] /\ Done(r)
          /\ UNCHANGED <<tmpDirs, devWhole, readOnly, openFds, faults>>
      BY <1>1, <1>8, <2>1, <3>1, <3>2, ZenonT(30) DEF EndCreate
    <3>4. IsReader(y) /\ y.op = "created"
      BY <1>2, <3>2, ZenonT(30) DEF IsReader
    <3> QED
      BY <3>3, <3>4, OverMove, ZenonT(30)
  <2>2. CASE ~Succeeded(r)
    BY <1>3, <1>8, <2>2 DEF EndCreate
  <2> QED
    BY <2>1, <2>2
<1>9. CASE EndCreated(r)
  BY <1>3, <1>4, <1>9, ZenonT(30) DEF EndCreated
<1>10. CASE EndOther(r)
  BY <1>3, <1>10 DEF EndOther
<1>11. CASE EndReadDirAll(r)
  BY <1>3, <1>5, <1>11, ZenonT(30) DEF EndReadDirAll
<1> QED
  BY <1>6, <1>7, <1>8, <1>9, <1>10, <1>11, EnterKeeps DEF ServeFile
-----------------------------------------------------------------------------
(* The invariant holds at first, ...                                        *)
LEMMA InitOK == Init => ReqInv
<1> SUFFICES ASSUME Init PROVE ReqInv
  OBVIOUS
<1>1. /\ tr = [t \in Tracees |-> Idle]
      /\ rd \in [Readers -> {In(d) : d \in UNION {Starts(view, r) : r \in Readers}}]
  BY SMTT(30) DEF Init, InitTracer, InitFuse
<1>2. AgentInv /\ openFds = 0 /\ \A c \in Clients : conv[c] = Closed
  BY AgentStarts DEF Init
<1>3. DOMAIN tr = Tracees /\ DOMAIN rd = Readers
  BY <1>1
<1>4. Closed.event = "none" /\ Closed.fds = 0 /\ Closed.done = {}
  BY DEF Closed
<1>5. ASSUME NEW t \in Tracees PROVE conv[t] = Closed /\ TraceeOK(t)
  <2>1. conv[t] = Closed /\ tr[t] = Idle
    BY <1>1, <1>2, RequestsAssumption
  <2>2. /\ IsTracee(Idle) /\ Idle.pc = "idle" /\ Idle.got = NoAnswer
    BY SMTT(30) DEF Idle, IsTracee
  <2>3. PhaseOK(t)
    BY <1>4, <2>1, <2>2 DEF PhaseOK
  <2>4. Tells(t, NoAnswer)
    BY NoAnswerOut DEF Tells
  <2>5. WorkOK(t)
    BY <2>1, <2>2, <2>4, ClosedOK, SMTT(30) DEF WorkOK
  <2> QED
    BY <2>1, <2>2, <2>3, <2>5, SMTT(30) DEF TraceeOK
<1>6. ASSUME NEW r \in Readers PROVE ReaderOK(r)
  <2>1. conv[r] = Closed
    BY <1>2, RequestsAssumption
  <2>2. PICK d : rd[r] = In(d)
    BY <1>1
  <2>3. PICK y : y = In(d)
    OBVIOUS
  <2>4. IsReader(y) /\ y.op = "none" /\ y.by = "none"
    BY <2>3 DEF In, IsReader
  <2> QED
    BY <2>1, <2>2, <2>3, <2>4, ClosedOK, SMTT(30) DEF ReaderOK
<1>7. FdsAccounted
  <2>1. Waiting = {}
    BY <1>4, <1>5 DEF Waiting
  <2>2. Cardinality(Waiting) = 0
    BY <2>1, FS_EmptySet
  <2> QED
    BY <1>2, <2>2 DEF FdsAccounted, Waiting
<1> QED
  BY <1>2, <1>3, <1>5, <1>6, <1>7 DEF ReqInv

(* A step that none of the parties takes.                                   *)
LEMMA OthersKeep ==
    ASSUME ReqInv, UNCHANGED <<agentVars, tr, rd>>
    PROVE  ReqInv'
<1>1. /\ conv' = conv /\ tmpDirs' = tmpDirs /\ devWhole' = devWhole /\ readOnly' = readOnly
      /\ openFds' = openFds /\ faults' = faults /\ tr' = tr /\ rd' = rd
  BY DEF agentVars
<1>2. AgentInv'
  BY <1>1, AgentSame DEF ReqInv, AgentInv
<1>3. \A t \in Tracees : TraceeOK(t)'
  BY <1>1, TraceeElsewhere DEF ReqInv
<1>4. \A r \in Readers : ReaderOK(r)'
  BY <1>1, SMTT(30) DEF ReqInv, ReaderOK, Carries, IsReader
<1>5. FdsAccounted'
  BY <1>1, SMTT(30) DEF ReqInv, FdsAccounted
<1> QED
  BY <1>1, <1>2, <1>3, <1>4, <1>5 DEF ReqInv

(* ... every step keeps it, ...                                             *)
LEMMA NextOK == ReqInv /\ [Next]_vars => ReqInv'
<1> SUFFICES ASSUME ReqInv, [Next]_vars PROVE ReqInv'
  OBVIOUS
<1>1. CASE SyscallSteps
  BY <1>1, SyscallsKeep
<1>2. CASE ContainerGone
  BY <1>2, OthersKeep DEF ContainerGone, Unregister, fuseVars
<1>3. CASE FileOps
  <2>1. PICK r \in Readers : (AskFile(r) \/ ServeFile(r)) /\ UNCHANGED tracerVars
    BY <1>3 DEF FileOps
  <2>2. tr' = tr
    BY <2>1 DEF tracerVars
  <2> QED
    BY <2>1, <2>2, AskFileKeeps, ServeFileKeeps
<1>4. CASE Agents
  BY <1>4, AgentsKeep
<1>5. CASE UNCHANGED vars
  BY <1>5, OthersKeep DEF vars, tracerVars, fuseVars
<1> QED
  BY <1>1, <1>2, <1>3, <1>4, <1>5 DEF Next

(* ... and so it always holds.                                              *)
LEMMA Invariant == Spec => []ReqInv
BY InitOK, NextOK, PTL DEF Spec

(* For any number of tracees, readers and faults and whatever syscalls are  *)
(* issued: a tracee is told what happened to its syscall, in particular     *)
(* success only once process() or its agent has performed it.               *)
THEOREM AnswersTell == Spec => []AnswerTellsEffect
<1>1. ReqInv => AnswerTellsEffect
  <2> SUFFICES ASSUME ReqInv, NEW t \in Tracees PROVE Tells(t, tr[t].got)
    BY ZenonT(30) DEF AnswerTellsEffect, Tells
  <2>1. CASE tr[t].pc = "idle"
    BY <2>1, TraceeParts, ZenonT(30) DEF WorkOK
  <2>2. CASE tr[t].pc # "idle"
    <3>1. tr[t].got = NoAnswer
      BY <2>2, TraceeParts, ZenonT(30) DEF WorkOK
    <3> QED
      BY <3>1, NoAnswerOut, SMTT(30) DEF Tells
  <2> QED
    BY <2>1, <2>2
<1> QED
  BY <1>1, Invariant, PTL

(* Any number of conversations: every descriptor that sysbox-fs received    *)
(* and did not close is that of an openat2 that is being processed, unless  *)
(* an open failed or an agent was killed.                                   *)
THEOREM DescriptorsAccounted == Spec => []FdsAccounted
<1>1. ReqInv => FdsAccounted
  BY DEF ReqInv
<1> QED
  BY <1>1, Invariant, PTL

(* Any number of agents at once: when none runs, the root of the container  *)
(* is as it was, but for the known exceptions.                              *)
THEOREM RootsClean == Spec => []RootLeftClean
<1>1. ReqInv => RootLeftClean
  <2> SUFFICES ASSUME ReqInv, \A c \in Clients : ~conv[c].run
               PROVE  /\ tmpDirs = 0 \/ faults \cap {"killed", "procfs"} # {}
                      /\ devWhole \/ (readOnly /\ "sysfs" \in faults)
    BY DEF RootLeftClean
  <2>1. ASSUME faults \cap {"killed", "procfs"} = {} PROVE tmpDirs = 0
    <3>1. \A c \in Clients : conv[c].at = "none"
      BY <2>1, SMTT(30) DEF ReqInv, AgentInv, AgentOK, ResultOK
    <3>2. InTmp = {}
      BY <3>1 DEF InTmp
    <3> QED
      BY <2>1, <3>2, FS_EmptySet DEF ReqInv, AgentInv, RootOK
  <2> QED
    BY <2>1 DEF ReqInv, AgentInv, RootOK
<1> QED
  BY <1>1, Invariant, PTL
=============================================================================
