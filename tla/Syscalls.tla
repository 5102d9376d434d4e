------------------------------ MODULE Syscalls ------------------------------
(***************************************************************************)
(* What the syscall tracer decides about a trapped syscall before anything  *)
(* is done: processSyscall() and the process*() methods of tracer.go,       *)
(* chown.go, xattr.go and openat2.go, up to the request they send to an     *)
(* nsenter agent or the mount() / umount() they hand over.                  *)
(*                                                                          *)
(* A syscall r is [call, path, source, fd, dirfd, xattr, len, size, inRoot, *)
(* emptyPath, mem, sysfs]: its arguments, whether the memory of the caller  *)
(* can be read, and whether a sysfs is mounted on /sys.  fd is 0 if the     *)
(* call has a path, as in the code; len is the number of bytes of the value *)
(* (setxattr) or of the open_how (openat2), size that of the buffer.  The   *)
(* caller p is a process of PathAccess with its descriptors p.fds and its   *)
(* root p.root.                                                             *)
(***************************************************************************)
EXTENDS PathAccess

CONSTANTS SysboxfsMounts,   \* mount.ProcfsMounts and mount.SysfsMounts
          OpenHowLen        \* length of an open_how with its three fields

CwdFd == -100               \* AT_FDCWD

(* What comes out: a response, a request to an agent, a call handed over,   *)
(* or the end of the daemon.                                                *)
Outcome(o, e, loc) == [out |-> o, err |-> e, loc |-> loc]
createContinueResponse == Outcome("continue", "none", <<>>)
createSuccessResponse == Outcome("success", "none", <<>>)
createErrorResponse(e) == Outcome("error", e, <<>>)
Panic == Outcome("panic", "none", <<>>)
Ask(loc) == Outcome("agent", "none", loc)
HandOver(loc) == Outcome("mount", "none", loc)

(* filepath.Join() of a directory and a path.                               *)
Join(dir, path) ==
    LET step(at, c) == IF c \in {"", "."} THEN at ELSE IF c = ".." THEN Dir(at) ELSE Append(at, c)
        joined[n \in 0..Len(path.comps)] == IF n = 0 THEN dir ELSE step(joined[n - 1], path.comps[n])
    IN  [abs |-> TRUE, comps |-> joined[Len(path.comps)]]
-----------------------------------------------------------------------------
(* chown.go                                                                 *)
ignoreChown(r, path) == path = [abs |-> TRUE, comps |-> <<"sys">>] /\ r.sysfs

ci_Decide(r, path) == IF ignoreChown(r, path) THEN createSuccessResponse ELSE createContinueResponse

ci_DecideOn(p, r, s) == IF s.err # "none" THEN createErrorResponse("EACCES")
                        ELSE ci_Decide(r, IF s.path.abs THEN s.path ELSE Join(p.cwd, s.path))

ci_processChown(p, r) == ci_DecideOn(p, r, ResolveProcSelf(p, r.path))

ci_processFchown(p, r) == IF r.fd \notin DOMAIN p.fds THEN createContinueResponse
                          ELSE ci_DecideOn(p, r, ResolveProcSelf(p, p.fds[r.fd]))

ci_processFchownat(p, r) ==
    LET dir == IF r.dirfd = CwdFd THEN [abs |-> TRUE, comps |-> p.cwd] ELSE p.fds[r.dirfd]
        path == IF r.path.abs THEN r.path
                ELSE IF r.emptyPath /\ r.path = EmptyPath THEN dir
                ELSE Join(dir.comps, r.path)
    IN  IF ~r.path.abs /\ r.dirfd # CwdFd /\ r.dirfd \notin DOMAIN p.fds THEN createContinueResponse
        ELSE ci_DecideOn(p, r, ResolveProcSelf(p, path))
-----------------------------------------------------------------------------
(* xattr.go                                                                 *)
AskFor(p, a) == IF a.err # "none" THEN createErrorResponse(a.err)
                ELSE Ask(p.root \o AbsTarget(p, a))

sanitizePath(p, fs, s, followSymlink) ==
    IF s.err # "none" THEN createErrorResponse("EACCES")
    ELSE AskFor(p, PathAccess(p, fs, s.path, {}, followSymlink))

(* fd 0 stands for "no descriptor".                                         *)
xattrTarget(p, fs, r, followSymlink) ==
    IF r.fd # 0 /\ r.fd \notin DOMAIN p.fds THEN createContinueResponse
    ELSE sanitizePath(p, fs, ResolveProcSelf(p, IF r.fd = 0 THEN r.path ELSE p.fds[r.fd]), followSymlink)

si_processSetxattr(p, fs, r) ==
    IF r.xattr # "trusted" THEN createContinueResponse
    ELSE IF "CAP_SYS_ADMIN" \notin p.caps THEN createErrorResponse("EPERM")
    ELSE xattrTarget(p, fs, r, r.call # "lsetxattr")

si_processGetxattr(p, fs, r) ==
    IF r.xattr # "trusted" THEN createContinueResponse
    ELSE IF "CAP_SYS_ADMIN" \notin p.caps THEN createErrorResponse("EPERM")
    ELSE xattrTarget(p, fs, r, r.call # "lgetxattr")

si_processRemovexattr(p, fs, r) ==
    IF r.xattr # "trusted" THEN createContinueResponse
    ELSE IF "CAP_SYS_ADMIN" \notin p.caps THEN createErrorResponse("EPERM")
    ELSE xattrTarget(p, fs, r, r.call # "lremovexattr")

si_processListxattr(p, fs, r) == xattrTarget(p, fs, r, r.call # "llistxattr")
-----------------------------------------------------------------------------
(* openat2.go                                                               *)
IsSysboxfsMount(loc) == \E m \in SysboxfsMounts : Within(m, loc)

AskIfMount(s) == IF s.err = "none" /\ IsSysboxfsMount(s.path.comps) THEN Ask(s.path.comps)
                 ELSE createContinueResponse

si_processOpenat2(p, r) ==
    LET byDirfd == r.dirfd # CwdFd /\ (~r.path.abs \/ r.inRoot)
        dir == IF byDirfd THEN p.fds[r.dirfd].comps ELSE IF r.path.abs THEN <<>> ELSE p.cwd
    IN  IF byDirfd /\ r.dirfd \notin DOMAIN p.fds THEN createContinueResponse
        ELSE AskIfMount(ResolveProcSelf(p, Join(dir, r.path)))
-----------------------------------------------------------------------------
(* memParserIOvec.go, memParserProcfs.go: a read fails with the memory of   *)
(* the process; the first returns no element for an empty byte argument,    *)
(* the second an empty one.                                                 *)
ReadSyscallBytesArgs(parser, r) ==
    IF ~r.mem /\ (parser = "procfs" \/ r.len > 0) THEN "error"
    ELSE IF parser = "iovec" /\ r.len = 0 THEN "none"
    ELSE "one"

(* tracer.go: the arguments are read, then the syscall is decided.  "then"  *)
(* indexes what ReadSyscallBytesArgs() returned.                            *)
AfterStrings(r, then) == IF r.mem THEN then ELSE createErrorResponse("EPERM")
AfterBytes(parser, r, then) ==
    LET b == ReadSyscallBytesArgs(parser, r)
    IN  IF b = "error" THEN createErrorResponse("EPERM") ELSE IF b = "none" THEN Panic ELSE then

MountOn(p, a) == IF a.err # "none" THEN createErrorResponse(a.err) ELSE HandOver(AbsTarget(p, a))

MountAt(p, fs, tgt) == IF tgt.err # "none" THEN createErrorResponse("EACCES")
                       ELSE MountOn(p, PathAccess(p, fs, tgt.path, {}, TRUE))

t_processMount(p, fs, r) ==
    AfterStrings(r, IF "CAP_SYS_ADMIN" \notin p.caps THEN createErrorResponse("EPERM")
                    ELSE IF ResolveProcSelf(p, r.source).err # "none" THEN createErrorResponse("EACCES")
                    ELSE MountAt(p, fs, ResolveProcSelf(p, r.path)))

(* A target that is not there is left to the kernel.                        *)
OrContinue(o) == IF o.err = "ENOENT" THEN createContinueResponse ELSE o

t_processUmount(p, fs, r) ==
    AfterStrings(r, IF "CAP_SYS_ADMIN" \notin p.caps THEN createErrorResponse("EPERM")
                    ELSE OrContinue(MountAt(p, fs, ResolveProcSelf(p, r.path))))

t_processChown(p, r) == AfterStrings(r, ci_processChown(p, r))
t_processFchown(p, r) == ci_processFchown(p, r)
t_processFchownat(p, r) == AfterStrings(r, ci_processFchownat(p, r))
t_processSetxattr(parser, p, fs, r) == AfterStrings(r, AfterBytes(parser, r, si_processSetxattr(p, fs, r)))
t_processFsetxattr(parser, p, fs, r) == AfterStrings(r, AfterBytes(parser, r, si_processSetxattr(p, fs, r)))
t_processGetxattr(p, fs, r) == AfterStrings(r, si_processGetxattr(p, fs, r))
t_processFgetxattr(p, fs, r) == AfterStrings(r, si_processGetxattr(p, fs, r))
t_processRemovexattr(p, fs, r) == AfterStrings(r, si_processRemovexattr(p, fs, r))
t_processFremovexattr(p, fs, r) == AfterStrings(r, si_processRemovexattr(p, fs, r))
t_processListxattr(p, fs, r) ==
    AfterStrings(r, IF "CAP_SYS_ADMIN" \notin p.caps THEN createContinueResponse
                    ELSE si_processListxattr(p, fs, r))
t_processFlistxattr(p, fs, r) ==
    IF "CAP_SYS_ADMIN" \notin p.caps THEN createContinueResponse ELSE si_processListxattr(p, fs, r)
t_processReboot == createSuccessResponse
t_processSwapon == createSuccessResponse
t_processSwapoff == createSuccessResponse
t_processOpenat2(parser, p, r) ==
    AfterStrings(r, AfterBytes(parser, r, IF r.len < OpenHowLen THEN createErrorResponse("EINVAL")
                                          ELSE si_processOpenat2(p, r)))

(* processSyscall(): the switch.                                            *)
Dispatch(parser, p, fs, r) ==
    LET call == r.call IN
    CASE call = "openat2" -> t_processOpenat2(parser, p, r)
      [] call = "mount" -> t_processMount(p, fs, r)
      [] call = "umount2" -> t_processUmount(p, fs, r)
      [] call = "reboot" -> t_processReboot
      [] call = "swapon" -> t_processSwapon
      [] call = "swapoff" -> t_processSwapoff
      [] call = "chown" -> t_processChown(p, r)
      [] call = "fchown" -> t_processFchown(p, r)
      [] call = "fchownat" -> t_processFchownat(p, r)
      [] call \in {"setxattr", "lsetxattr"} -> t_processSetxattr(parser, p, fs, r)
      [] call = "fsetxattr" -> t_processFsetxattr(parser, p, fs, r)
      [] call \in {"getxattr", "lgetxattr"} -> t_processGetxattr(p, fs, r)
      [] call = "fgetxattr" -> t_processFgetxattr(p, fs, r)
      [] call \in {"removexattr", "lremovexattr"} -> t_processRemovexattr(p, fs, r)
      [] call = "fremovexattr" -> t_processFremovexattr(p, fs, r)
      [] call \in {"listxattr", "llistxattr"} -> t_processListxattr(p, fs, r)
      [] call = "flistxattr" -> t_processFlistxattr(p, fs, r)
      [] OTHER -> Outcome("unsupported", "EINVAL", <<>>)
=============================================================================
