---------------------------- MODULE RequestPaths ----------------------------
(***************************************************************************)
(* Requests, its paths compared with what the kernel finds.                 *)
(***************************************************************************)
EXTENDS Requests

PR == INSTANCE PathResolution

PathCalls == {"mount", "umount2", "setxattr", "lsetxattr", "getxattr", "lgetxattr", "removexattr",
              "lremovexattr", "listxattr", "llistxattr"}
Follows(call) == call \notin {"lsetxattr", "lgetxattr", "lremovexattr", "llistxattr"}

(* The file on which a path syscall is performed for a process is the one   *)
(* the kernel would find, and where the walk of PathAccess() fails the      *)
(* kernel fails with the same errno.                                        *)
PathExact ==
    \A t \in Tracees :
        LET r == tr[t].req
            p == ProcOf(r)
            o == Dispatch(parser, p, Files, r)
            k == PR!KernelResolve(p, Files, r.path, Follows(r.call))
        IN  tr[t].pc = "process" /\ r.call \in PathCalls /\ ~IsProcSelf(r.path) =>
              /\ o.out \in {"agent", "mount"} => k = [err |-> "none", loc |-> o.loc]
              /\ o.out = "error" /\ o.err \in {"ENOENT", "ENOTDIR", "ELOOP", "EACCES"} => k.err = o.err
=============================================================================
