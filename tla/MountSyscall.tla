----------------------------- MODULE MountSyscall -----------------------------
(***************************************************************************)
(* The trapped mount and umount2 syscalls of a system container             *)
(* (seccomp/mount.go, seccomp/umount.go): what sysbox-fs decides from the   *)
(* mountinfo it parses, the list of instructions it hands to the nsenter    *)
(* agent, and the agent's processMountSyscallRequest and                    *)
(* processUmountSyscallRequest (nsenter/event.go), which carry it out one   *)
(* kernel call at a time and undo what they did when a call fails.          *)
(*                                                                          *)
(* Tracees run in the container's own mount namespace, with no chroot, and  *)
(* neither allow-immutable-remounts nor allow-immutable-unmounts is set.    *)
(***************************************************************************)
EXTENDS MountInfo

CONSTANTS Tracees,        \* processes whose syscalls are trapped
          Requests,       \* the syscalls they make
          MaxAt,          \* how many mounts they pile up on a path
          InitialMounts   \* what sysbox-runc set up

VARIABLES ms,       \* the mount table
          sbRo,     \* procfs and sysfs, when read-only at superblock level
          cntrMip,  \* container.mountInfoParser, nil (empty) at first
          pc, req,
          payload,  \* the instructions handed to the agent
          i,        \* the agent's position in them
          res,      \* what the tracee is answered
          before    \* the table when the syscall was trapped

table == <<ms, sbRo>>
local == <<pc, req, payload, i, res, before>>
vars == <<table, cntrMip, local>>

NoReq == [op |-> "none"]

Init ==
    /\ ms = InitialMounts /\ sbRo = {}
    /\ cntrMip = [ms |-> <<>>, sbRo |-> {}]
    /\ pc = [t \in Tracees |-> "idle"]
    /\ req = [t \in Tracees |-> NoReq]
    /\ payload = [t \in Tracees |-> <<>>]
    /\ i = [t \in Tracees |-> 0]
    /\ res = [t \in Tracees |-> "none"]
    /\ before = [t \in Tracees |-> <<>>]

Goto(t, step) == pc' = [pc EXCEPT ![t] = step]
Answer(t, r) == Goto(t, "answer") /\ res' = [res EXCEPT ![t] = r]

-----------------------------------------------------------------------------
(* The kernel's side of one instruction.                                   *)

\* A procfs that is read-only at superblock level is not mounted read-write.
Call(r) ==
    CASE r.op = "mount"  -> IF r.fs \in sbRo /\ ~r.ro THEN Failed
                            ELSE NewMount(ms, r.fs, r.tgt, r.ro)
      [] r.op = "bind"    -> BindMount(ms, r.src, r.tgt, r.rec)
      [] r.op = "move"    -> MoveMount(ms, r.src, r.tgt)
      [] r.op = "remount" -> Remount(ms, r.tgt, r.ro)
      [] r.op = "umount"  -> Umount(ms, r.tgt)
      [] OTHER            -> ms

\* A remount without MS_BIND reaches the superblock.
CallSb(r) ==
    LET fs == Resolve(ms, r.tgt).fs
    IN  IF r.op # "remount" \/ r.bind \/ fs \notin {"proc", "sysfs"} THEN sbRo
        ELSE IF r.ro THEN sbRo \union {fs} ELSE sbRo \ {fs}

-----------------------------------------------------------------------------
(* The instructions for the agent.                                         *)

Bind(src, tgt) == [op |-> "bind", src |-> src, tgt |-> tgt, rec |-> FALSE]
RemountBind(tgt, ro) == [op |-> "remount", tgt |-> tgt, ro |-> ro, bind |-> TRUE]

Each(names, Op(_)) == [k \in DOMAIN names |-> Op(names[k])]

\* createProcPayload and createSysPayload.
BasePayload(mip, r, base, binds, others) ==
    LET ro == r.ro \/ VfsRo(mip, GetInfo(mip, base))
        At(n) == Bind(Append(base, n), Append(r.tgt, n))
        RoAt(n) == RemountBind(Append(r.tgt, n), TRUE)
    IN  <<[r EXCEPT !.ro = ro]>> \o Each(binds \o others, At)
            \o (IF ro THEN Each(binds, RoAt) ELSE <<>>)

createProcPayload(mip, r) ==
    BasePayload(mip, r, ProcPath, ProcMounts, ProcRoPaths \o ProcMaskPaths)
createSysPayload(mip, r) == BasePayload(mip, r, SysPath, SysMounts, <<>>)

\* The submounts come out of a Go map, in no particular order.
Submounts(mip, p) ==
    SetToSeqs(IF IsSysboxfsBaseMount(mip, p) THEN GetSysboxfsSubMounts(mip, p) ELSE {p})
Itself(mip, r) == IF IsSysboxfsBaseMount(mip, r.tgt) THEN <<r>> ELSE <<>>

createRemountPayload(mip, r) ==
    LET Ro(p) == \/ r.ro
                 \/ /\ IsSysboxfsSubmountIn(mip, p, ProcRoPaths)
                    /\ GetInfo(mip, p).ro \/ VfsRo(mip, GetInfo(mip, p))
        One(p) == RemountBind(p, Ro(p))
    IN  {Each(subs, One) \o Itself(mip, r) : subs \in Submounts(mip, r.tgt)}

createBindMountPayload(mip, r) ==
    LET One(p) == Bind(p, r.tgt \o Below(r.src, p))
    IN  IF r.rec THEN {<<r>>}
        ELSE {<<r>> \o Each(subs, One) : subs \in SetToSeqs(GetSysboxfsSubMounts(mip, r.src))}

\* Slip: leaves out the base mount.
createUmountPayloadSubs(mip, r) ==
    LET One(p) == [op |-> "umount", tgt |-> p]
    IN  {Each(subs, One) : subs \in Submounts(mip, r.tgt)}

createUmountPayload(mip, r) ==
    LET One(p) == [op |-> "umount", tgt |-> p]
    IN  {Each(subs, One) \o Itself(mip, r) : subs \in Submounts(mip, r.tgt)}

-----------------------------------------------------------------------------
(* What process() decides, from the mountinfo mip and the container's      *)
(* initial mounts cmip.                                                    *)

Kernel == [to |-> "kernel", payloads |-> {<<>>}]
Reply(r) == [to |-> r, payloads |-> {<<>>}]
Agent(payloads) == [to |-> "agent", payloads |-> payloads]

remountAllowed(mip, cmip, r) ==
    LET info == GetInfo(mip, r.tgt)
    IN  \/ r.ro
        \/ /\ info # None
           /\ \/ ~info.ro
              \/ ~IsImmutableRoMountID(cmip, info.id) /\ ~IsImmutableRoBindMount(cmip, info)

umountAllowed(mip, cmip, r) ==
    LET info == GetInfo(mip, r.tgt)
    IN  /\ info # None
        /\ IsRootMountID(cmip, info.id) \/ ~IsImmutableMountID(cmip, info.id)

processNewMount(mip, r) ==
    CASE r.fs = "proc"               -> Agent({createProcPayload(mip, r)})
      [] r.fs = "sysfs"              -> Agent({createSysPayload(mip, r)})
      [] r.fs \in {"overlay", "nfs"} -> Agent({<<r>>})
      [] OTHER                       -> Kernel

\* Slip: read-only mounts of the container may be remounted read-write.
processRemountAny(mip, cmip, r) ==
    IF IsSysboxfsBaseMount(mip, r.tgt) \/ IsSysboxfsSubmount(mip, r.tgt)
    THEN Agent(createRemountPayload(mip, r)) ELSE Kernel

\* Slip: the remount of a base mount is left to the kernel.
processRemountKernel(mip, cmip, r) ==
    IF ~remountAllowed(mip, cmip, r) THEN Reply("error") ELSE Kernel

processRemount(mip, cmip, r) ==
    IF ~remountAllowed(mip, cmip, r) THEN Reply("error")
    ELSE IF IsSysboxfsBaseMount(mip, r.tgt) \/ IsSysboxfsSubmount(mip, r.tgt)
    THEN Agent(createRemountPayload(mip, r)) ELSE Kernel

processBind(mip, r) ==
    IF \/ r.src = r.tgt /\ IsSysboxfsSubmount(mip, r.tgt)
       \/ r.src = <<"null">> /\ IsSysboxfsSubmountIn(mip, r.tgt, ProcMaskPaths)
    THEN Reply("ok")
    ELSE IF r.src # r.tgt /\ IsSysboxfsBaseMount(mip, r.src)
    THEN Agent(createBindMountPayload(mip, r)) ELSE Kernel

\* Slip: the submounts of a base mount can be unmounted on their own.
processUmountEach(mip, cmip, r) ==
    IF IsSysboxfsBaseMount(mip, r.tgt)
    THEN IF r.tgt \in {ProcPath, SysPath} \/ HasNonSysboxfsSubmount(mip, r.tgt)
         THEN Reply("error") ELSE Agent(createUmountPayload(mip, r))
    ELSE IF ~umountAllowed(mip, cmip, r) THEN Reply("error")
    ELSE Kernel

processUmount(mip, cmip, r) ==
    IF IsSysboxfsBaseMount(mip, r.tgt)
    THEN IF r.tgt \in {ProcPath, SysPath} \/ HasNonSysboxfsSubmount(mip, r.tgt)
         THEN Reply("error") ELSE Agent(createUmountPayload(mip, r))
    ELSE IF IsSysboxfsSubmount(mip, r.tgt) \/ ~umountAllowed(mip, cmip, r) THEN Reply("error")
    ELSE Kernel

process(mip, cmip, r) ==
    CASE r.op = "mount"                    -> processNewMount(mip, r)
      [] r.op \in {"move", "propagation"} -> Kernel
      [] r.op = "remount"                  -> processRemount(mip, cmip, r)
      [] r.op = "bind"                     -> processBind(mip, r)
      [] r.op = "umount"                   -> processUmount(mip, cmip, r)

-----------------------------------------------------------------------------
(* The life of a trapped syscall.                                          *)

\* The bound on the mounts tracees pile up on one path.
WithinBound(r) ==
    r.op \in {"mount", "bind", "move"} /\ Cardinality(MountAt(ms, r.tgt)) >= MaxAt[r.tgt]
        => r.op = "bind" /\ r.src = r.tgt

Trap(t) ==
    /\ pc[t] = "idle"
    /\ \E r \in Requests : /\ WithinBound(r)
                           /\ req' = [req EXCEPT ![t] = r]
    /\ before' = [before EXCEPT ![t] = ms]
    /\ Goto(t, "handle")
    /\ UNCHANGED <<table, cntrMip, payload, i, res>>

\* processMount, processUmount (tracer.go) and process(): a target that does
\* not exist is an error of mount, and is left to the kernel for umount; the
\* first syscall of the container records its initial mounts.
Handle(t) ==
    LET r == req[t]
        mip == [ms |-> ms, sbRo |-> sbRo]
        cmip == IF cntrMip.ms = <<>> THEN mip ELSE cntrMip
        verdict == process(mip, cmip, r)
    IN  /\ pc[t] = "handle"
        /\ IF ~Exists(ms, r.tgt)
           THEN /\ IF r.op = "umount" THEN Goto(t, "kernel") /\ UNCHANGED res
                   ELSE Answer(t, "error")
                /\ UNCHANGED <<cntrMip, payload, i>>
           ELSE /\ cntrMip' = cmip
                /\ \E p \in verdict.payloads : payload' = [payload EXCEPT ![t] = p]
                /\ i' = [i EXCEPT ![t] = 1]
                /\ CASE verdict.to = "kernel" -> Goto(t, "kernel") /\ UNCHANGED res
                     [] verdict.to = "agent"  ->
                            /\ Goto(t, IF r.op = "umount" THEN "umount" ELSE "mount")
                            /\ UNCHANGED res
                     [] OTHER -> Answer(t, verdict.to)
        /\ UNCHANGED <<table, req, before>>

\* The continue response: the kernel runs the syscall as it was made.
Continue(t) ==
    LET new == Call(req[t])
    IN  /\ pc[t] = "kernel"
        /\ IF new = Failed THEN Answer(t, "error") /\ UNCHANGED table
           ELSE Answer(t, "ok") /\ ms' = new /\ sbRo' = CallSb(req[t])
        /\ UNCHANGED <<cntrMip, req, payload, i, before>>

\* One mount(2) of processMountSyscallRequest.  Any of them may fail.
AgentMount(t) ==
    LET new == Call(payload[t][i[t]])
    IN  /\ pc[t] = "mount" /\ i[t] <= Len(payload[t])
        /\ \/ /\ new # Failed
              /\ ms' = new /\ sbRo' = CallSb(payload[t][i[t]])
              /\ i' = [i EXCEPT ![t] = @ + 1]
              /\ UNCHANGED pc
           \/ /\ Goto(t, "rollback")
              /\ i' = [i EXCEPT ![t] = @ - 1]
              /\ UNCHANGED table
        /\ UNCHANGED <<cntrMip, req, payload, res, before>>

\* Slip: the loop stops before the first instruction.
AgentRollbackShort(t) ==
    LET done == payload[t][i[t]]
        undone == IF done.op = "remount" THEN Failed ELSE Umount(ms, done.tgt)
    IN  /\ pc[t] = "rollback"
        /\ IF i[t] <= 1 THEN Answer(t, "error") /\ UNCHANGED <<ms, i>>
           ELSE /\ ms' = IF undone = Failed THEN ms ELSE undone
                /\ i' = [i EXCEPT ![t] = @ - 1]
                /\ UNCHANGED <<pc, res>>
        /\ UNCHANGED <<sbRo, cntrMip, req, payload, before>>

\* The undoing of the instructions done, last to first; errors are ignored.
AgentRollback(t) ==
    LET done == payload[t][i[t]]
        undone == IF done.op = "remount" THEN Failed ELSE Umount(ms, done.tgt)
    IN  /\ pc[t] = "rollback"
        /\ IF i[t] = 0 THEN Answer(t, "error") /\ UNCHANGED <<ms, i>>
           ELSE /\ ms' = IF undone = Failed THEN ms ELSE undone
                /\ i' = [i EXCEPT ![t] = @ - 1]
                /\ UNCHANGED <<pc, res>>
        /\ UNCHANGED <<sbRo, cntrMip, req, payload, before>>

\* A procfs that is not read-only is then given to the caller (processProcMount).
AgentMounted(t) ==
    LET first == payload[t][1]
    IN  /\ pc[t] = "mount" /\ i[t] > Len(payload[t])
        /\ IF first.op = "mount" /\ first.fs = "proc" /\ ~first.ro
           THEN Goto(t, "chown") /\ UNCHANGED res
           ELSE Answer(t, "ok")
        /\ UNCHANGED <<table, cntrMip, req, payload, i, before>>

\* processChownNSenter; the mount stays when it fails.
Chown(t) ==
    /\ pc[t] = "chown"
    /\ Answer(t, "ok") \/ Answer(t, "chown failed")
    /\ UNCHANGED <<table, cntrMip, req, payload, i, before>>

\* One umount2(2) of processUmountSyscallRequest; the first error ends it.
AgentUmount(t) ==
    LET new == Umount(ms, payload[t][i[t]].tgt)
    IN  /\ pc[t] = "umount"
        /\ IF i[t] > Len(payload[t]) THEN Answer(t, "ok") /\ UNCHANGED <<ms, i>>
           ELSE IF new = Failed THEN Answer(t, "error") /\ UNCHANGED <<ms, i>>
           ELSE /\ ms' = new
                /\ i' = [i EXCEPT ![t] = @ + 1]
                /\ UNCHANGED <<pc, res>>
        /\ UNCHANGED <<sbRo, cntrMip, req, payload, before>>

Return(t) ==
    /\ pc[t] = "answer"
    /\ Goto(t, "idle")
    /\ req' = [req EXCEPT ![t] = NoReq]
    /\ payload' = [payload EXCEPT ![t] = <<>>]
    /\ i' = [i EXCEPT ![t] = 0]
    /\ res' = [res EXCEPT ![t] = "none"]
    /\ before' = [before EXCEPT ![t] = <<>>]
    /\ UNCHANGED <<table, cntrMip>>

Next == \E t \in Tracees :
    \/ Trap(t) \/ Handle(t) \/ Continue(t)
    \/ AgentMount(t) \/ AgentRollback(t) \/ AgentMounted(t) \/ Chown(t) \/ AgentUmount(t)
    \/ Return(t)

Spec == Init /\ [][Next]_vars

-----------------------------------------------------------------------------
(* Properties.                                                             *)

Answered(t, ops, r) == pc[t] = "answer" /\ req[t].op \in ops /\ res[t] = r

Managed(fs) == IF fs = "proc" THEN Range(ProcMounts \o ProcRoPaths \o ProcMaskPaths)
               ELSE Range(SysMounts)
Submount(table0, b, n) == {m \in Children(table0, b) : m.mp = Append(b.mp, n)}
Bases(table0) == {b \in Range(table0) : isSysboxfsBaseMount(b)}

\* A procfs (or sysfs) acts as one whole (umount.go: "we want the procfs mount
\* to act as one whole rather than a collection of mounts"): between syscalls
\* every base mount has each of the submounts that sysbox-fs manages.
BaseMountsWhole ==
    (\A t \in Tracees : pc[t] = "idle") =>
        \A b \in Bases(ms) : \A n \in Managed(b.fs) : Submount(ms, b, n) # {}

\* A mount, bind or umount that is answered with an error by a call that
\* failed leaves the mount table as it found it, wherever in the list of
\* instructions the failure came (processMountSyscallRequest's unmounts).
FailureUndone ==
    \A t \in Tracees : Answered(t, {"mount", "bind", "move", "umount"}, "error")
        => ms = before[t]

\* An unmount that succeeds takes away the mount that was on top of the
\* target with the submounts sysbox-fs put below it, and nothing else.
UmountExact ==
    \A t \in Tracees : Answered(t, {"umount"}, "ok") =>
        LET m == Resolve(before[t], req[t].tgt)
            gone == {m} \union Children(before[t], m)
        IN  ms = SelectSeq(before[t], LAMBDA k : k \notin gone)

\* Read-only reaches all of a procfs: after a base mount was mounted or
\* remounted read-only, the submounts sysbox-fs serves below it are read-only,
\* and after it was remounted read-write only the container's read-only paths
\* still are (createProcPayload, createRemountPayload).
ReadOnlyReaches ==
    \A t \in Tracees : Answered(t, {"mount", "remount"}, "ok") =>
        LET b == Resolve(ms, req[t].tgt)
            RoOf(n) == {m.ro : m \in Submount(ms, b, n)}
        IN  isSysboxfsBaseMount(b) =>
            /\ b.ro => \A n \in Managed(b.fs) \ Range(ProcMaskPaths) : RoOf(n) = {TRUE}
            /\ ~b.ro /\ req[t].op = "remount" =>
                   \A n \in Managed(b.fs) : TRUE \in RoOf(n) => n \in Range(ProcRoPaths)

\* What the container started with stays: no initial mount is ever unmounted,
\* and one that was read-only is never made read-write (umountAllowed,
\* remountAllowed).
ImmutableKept ==
    \A m \in Range(InitialMounts) : \E k \in Range(ms) :
        k.id = m.id /\ k.mp = m.mp /\ k.fs = m.fs /\ k.root = m.root /\ (m.ro => k.ro)
================================================================================
