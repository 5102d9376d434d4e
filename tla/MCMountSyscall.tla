---------------------------- MODULE MCMountSyscall ----------------------------
(* A container with one mount of each kind that sysbox-runc sets up.        *)
EXTENDS MountSyscall

MCDirs == {<<"x">>, <<"y">>, <<"z">>}
MCEntries == [proc |-> {"sys", "bus", "kcore", "net"}, sysfs |-> {"kernel", "fs"}]
MCProcMounts == <<"sys">>
MCSysMounts == <<"kernel">>
MCRoPaths == <<"bus">>
MCMaskPaths == <<>>

M(id, parent, mp, fs, root, ro) ==
    [id |-> id, parent |-> parent, mp |-> mp, fs |-> fs, root |-> root, ro |-> ro]

MCInitial ==
    << M(1, 0, <<>>, "rootfs", <<>>, FALSE),
       M(2, 1, <<"proc">>, "proc", <<>>, FALSE),
       M(3, 2, <<"proc", "sys">>, "fuse", <<"sys">>, FALSE),
       M(4, 2, <<"proc", "bus">>, "proc", <<"bus">>, TRUE),
       M(5, 1, <<"d">>, "disk", <<>>, TRUE),
       M(6, 1, <<"sys">>, "sysfs", <<>>, TRUE),
       M(7, 6, <<"sys", "kernel">>, "fuse", <<"kernel">>, TRUE) >>

New(fs, tgt, ro) == [op |-> "mount", fs |-> fs, tgt |-> tgt, ro |-> ro]
Bnd(src, tgt, rec) == [op |-> "bind", src |-> src, tgt |-> tgt, rec |-> rec]
Rem(tgt, ro, bind) == [op |-> "remount", tgt |-> tgt, ro |-> ro, bind |-> bind]
Move(src, tgt) == [op |-> "move", src |-> src, tgt |-> tgt]
Um(tgt) == [op |-> "umount", tgt |-> tgt]

X == <<"x">>
Y == <<"y">>
Sub == <<"x", "sys">>

Z == <<"z">>
Net == <<"x", "net">>

MCMaxAt == X :> 2 @@ Y :> 1 @@ Net :> 1 @@ Sub :> 1 @@ Z :> 1

MCRequests ==
    {New("proc", X, ro) : ro \in BOOLEAN}
    \union {New("sysfs", Y, TRUE), New("tmpfs", Net, FALSE),
            New("overlay", Z, FALSE)}
    \union {Bnd(<<"proc">>, X, rec) : rec \in BOOLEAN}
    \union {Bnd(<<"d">>, Y, FALSE), Bnd(Sub, Sub, FALSE), Move(Y, Z),
            [op |-> "propagation", tgt |-> X]}
    \union {Rem(X, ro, FALSE) : ro \in BOOLEAN}
    \union {Rem(p, FALSE, TRUE) : p \in {Y, <<"d">>, <<"proc", "bus">>}}
    \union {Um(p) : p \in {X, Y, Sub, Net, <<"d">>, <<"proc">>}}

\* Two mounts on one path below a base mount.
MCMaxAtOver == X :> 1 @@ Net :> 2
MCRequestsOver == {New("proc", X, FALSE), New("tmpfs", Net, FALSE), Um(X), Um(Net)}
================================================================================
