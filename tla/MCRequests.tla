----------------------------- MODULE MCRequests -----------------------------
EXTENDS RequestPaths

CONSTANTS t1, t2, r1, r2

P(comps) == [abs |-> TRUE, comps |-> comps]
R(comps) == [abs |-> FALSE, comps |-> comps]
-----------------------------------------------------------------------------
(* Files: /d/f /d/e/f, /k that only root may search, links.                 *)
All == {"r", "w", "x"}
N(kind, o) == [kind |-> kind, own |-> "root", grp |-> "root", abs |-> FALSE, to |-> <<>>,
               u |-> All, g |-> o, o |-> o]
L(abs, to) == [N("link", All) EXCEPT !.abs = abs, !.to = to]

Dirs == {<<>>, <<"d">>, <<"d", "e">>, <<"sys">>}
PlainFiles == {<<"d", "f">>, <<"d", "e", "f">>, <<"k", "f">>}
Links == {<<"d", "l">>, <<"d", "m">>, <<"d", "n">>, <<"d", "o">>}

MCFiles == [q \in Dirs \cup PlainFiles \cup Links \cup {<<"k">>} |->
    IF q \in Dirs THEN N("dir", All)
    ELSE IF q \in PlainFiles THEN N("file", {"r"})
    ELSE IF q = <<"k">> THEN N("dir", {})
    ELSE IF q = <<"d", "l">> THEN L(FALSE, <<"f">>)
    ELSE IF q = <<"d", "m">> THEN L(TRUE, <<"d", "e">>)
    ELSE IF q = <<"d", "n">> THEN L(FALSE, <<"l">>)
    ELSE L(FALSE, <<"o">>)]

Self == [e \in {<<"fd", "3">>, <<"exe">>} |->
            IF e = <<"exe">> THEN P(<<"d", "f">>) ELSE P(<<"proc", "self", "fd", "3">>)]

Admin == [uid |-> "u", groups |-> {}, caps |-> {"CAP_SYS_ADMIN"}, cwd |-> <<"d">>, root |-> <<>>,
          self |-> Self, fds |-> [n \in {3, 4} |-> IF n = 3 THEN P(<<"d", "f">>) ELSE P(<<"proc", "sys">>)]]

MCProcOf(r) == CASE r.who = "user" -> [Admin EXCEPT !.caps = {}]
                 [] r.who = "dac" -> [Admin EXCEPT !.caps = @ \cup {"CAP_DAC_READ_SEARCH"}, !.cwd = <<"d", "e">>]
                 [] OTHER -> Admin
-----------------------------------------------------------------------------
Call(call, path) ==
    [call |-> call, who |-> "admin", path |-> path, source |-> EmptyPath, fd |-> 0, dirfd |-> CwdFd,
     xattr |-> "trusted", len |-> 1, size |-> 1, inRoot |-> FALSE, emptyPath |-> FALSE,
     mem |-> TRUE, sysfs |-> TRUE]

(* Paths of up to three names.                                              *)
Absolute(n) == {P(c) : c \in UNION {[1..k -> {"d", "e", "f", "k", "l", "m", "n", "o"}] : k \in 1..n}}
Relative == {R(c) : c \in UNION {[1..k -> {"e", "f", "l", "m", "o"}] : k \in 1..2}}
Dotted == {P(<<"d", "..", "k", "f">>), P(<<"d", "e", "..", "f">>), P(<<"d", "m", "..", "f">>),
           P(<<"d", ".", "f">>), P(<<"..", "d", "f">>)}

PathRequests ==
    {Call(c, q) : c \in {"getxattr", "lgetxattr"}, q \in Absolute(3) \cup Relative \cup Dotted}
    \cup {[Call(c, q) EXCEPT !.who = "dac"] : c \in {"getxattr", "lgetxattr"}, q \in Absolute(2) \cup Relative}

f == P(<<"d", "f">>)
proc == P(<<"proc", "sys", "kernel">>)

OtherRequests ==
    {Call(c, f) : c \in {"setxattr", "lsetxattr", "removexattr", "lremovexattr", "listxattr", "llistxattr",
                         "mount", "umount2", "chown", "fchownat", "reboot", "swapon", "swapoff", "ptrace"}}
    \cup {[Call(c, EmptyPath) EXCEPT !.fd = n] :
              c \in {"fsetxattr", "fgetxattr", "fremovexattr", "flistxattr", "fchown"}, n \in {3, 5}}
    \cup {[Call(c, f) EXCEPT !.who = "user"] :
              c \in {"mount", "umount2", "setxattr", "getxattr", "removexattr", "listxattr"}}
    \cup {[Call(c, f) EXCEPT !.mem = FALSE] : c \in {"mount", "setxattr", "getxattr", "openat2", "chown"}}
    \cup {[Call(c, P(<<"d", "x">>)) EXCEPT !.who = "dac"] : c \in {"mount", "umount2"}}
    \cup {[Call(c, f) EXCEPT !.xattr = "user"] : c \in {"setxattr", "getxattr", "removexattr"}}
    \cup {[Call(c, f) EXCEPT !.size = 0] : c \in {"getxattr", "listxattr"}}
    \cup {[Call(c, proc) EXCEPT !.len = n] : c \in {"setxattr", "openat2"}, n \in {0, 1, 2}}
    \cup {[Call("openat2", R(<<"kernel">>)) EXCEPT !.len = 2, !.dirfd = n] : n \in {3, 4, 5}}
    \cup {[Call("openat2", f) EXCEPT !.len = 2]}
    \cup {Call("chown", P(<<"sys">>)), [Call("chown", P(<<"sys">>)) EXCEPT !.sysfs = FALSE],
          [Call("fchownat", R(<<"..", "sys">>)) EXCEPT !.dirfd = 3],
          [Call("fchownat", EmptyPath) EXCEPT !.dirfd = 4, !.emptyPath = TRUE]}
    \cup {Call(c, P(<<"proc", "self">> \o e)) :
              c \in {"setxattr", "mount"}, e \in {<<"exe">>, <<"fd", "3">>, <<"fd", "9">>}}

(* Syscalls that two threads issue at the same time.                        *)
Concurrent == {Call("setxattr", f), [Call("openat2", proc) EXCEPT !.len = 2]}

MCCalls(v, t) == CASE v = "syscalls" -> Concurrent
                   [] v = "paths" /\ t = t1 -> PathRequests \cup OtherRequests
                   [] OTHER -> {}
MCQuota(v) == CASE v = "syscalls" -> 2 [] v = "paths" -> 1 [] OTHER -> 0
MCParsers(v) == IF v = "paths" THEN {"iovec", "procfs"} ELSE {"iovec"}

(* A path that leaves the working directory through "..".                   *)
MCDotDotCalls(v, t) == {[Call("getxattr", R(<<"..", "f">>)) EXCEPT !.who = "dac"]}
-----------------------------------------------------------------------------
(* Kernel configurations: whether the directories of optional modules are   *)
(* there, for the container and for the host.                               *)
Sub(dir, names) == {dir \o n : n \in names}
PS == <<"proc", "sys">>
SDV == <<"sys", "devices", "virtual">>

Base == {<<>>, <<"proc">>, <<"sys">>, PS, <<"sys", "kernel">>, <<"sys", "devices">>, SDV, Append(SDV, "net"),
         <<"proc", "uptime">>, <<"proc", "swaps">>, <<"sys", "kernel", "mm">>}
SysctlDirs == Sub(PS, {<<"fs">>, <<"vm">>, <<"kernel">>, <<"kernel", "random">>, <<"net">>,
                       <<"net", "core">>, <<"net", "ipv4">>, <<"net", "ipv4", "neigh">>,
                       <<"net", "ipv4", "neigh", "lo">>, <<"net", "unix">>})
SysctlFiles == Sub(PS, {<<"fs", "file-max">>, <<"fs", "nr_open">>, <<"fs", "pipe-max">>, <<"vm", "swappiness">>,
                        <<"kernel", "hostname">>, <<"kernel", "ngroups_max">>, <<"kernel", "shmall">>,
                        <<"kernel", "random", "uuid">>, <<"kernel", "randomize_va_space">>,
                        <<"net", "core", "somaxconn">>, <<"net", "ipv4", "ping_group_range">>,
                        <<"net", "ipv4", "neigh", "lo", "retrans_time">>})
Modules == {<<"proc", "sys", "kernel", "yama">>, <<"proc", "sys", "net", "ipv4", "vs">>,
            <<"proc", "sys", "net", "netfilter">>,
            <<"sys", "module">>, <<"sys", "module", "nf_conntrack">>,
            <<"sys", "module", "nf_conntrack", "parameters">>}
ModuleFiles == {<<"proc", "sys", "kernel", "yama", "ptrace_scope">>,
                <<"proc", "sys", "net", "ipv4", "vs", "conntrack">>,
                <<"proc", "sys", "net", "netfilter", "nf_conntrack_max">>,
                <<"sys", "module", "nf_conntrack", "parameters", "hashsize">>,
                <<"sys", "module", "nf_conntrack", "parameters", "acct">>}
HostDirs == {<<"sys", "kernel", "security">>, <<"sys", "kernel", "debug">>, Append(SDV, "dmi"),
             SDV \o <<"dmi", "id">>, Append(SDV, "block")}
HostFiles == {<<"sys", "kernel", "security", "lsm">>, <<"sys", "kernel", "debug", "gpio">>,
              SDV \o <<"dmi", "id", "bios_date">>, SDV \o <<"dmi", "id", "product_uuid">>}

Kinds(dirs, files, links) == [q \in dirs \cup files \cup links |->
    IF q \in dirs THEN "dir" ELSE IF q \in files THEN "file" ELSE "link"]

BaseDirs == Base \ {<<"proc", "uptime">>, <<"proc", "swaps">>}
BaseFiles == {<<"proc", "uptime">>, <<"proc", "swaps">>}
FullCntr == Kinds(BaseDirs \cup SysctlDirs \cup Modules, BaseFiles \cup SysctlFiles \cup ModuleFiles,
                  {SDV \o <<"net", "lo">>})
FullHost == Kinds(BaseDirs \cup SysctlDirs \cup Modules \cup HostDirs,
                  BaseFiles \cup SysctlFiles \cup ModuleFiles \cup HostFiles,
                  {SDV \o <<"net", "lo">>, SDV \o <<"net", "eth0">>})
BareCntr == Kinds(BaseDirs \cup SysctlDirs, BaseFiles \cup SysctlFiles, {SDV \o <<"net", "lo">>})
BareHost == BareCntr

Little == Kinds({PS, Append(SDV, "net")}, {}, {})

MCViews == {"syscalls", "paths", "full", "bare", "two readers"}
MCCntr(v) == CASE v = "full" -> FullCntr [] v = "bare" -> BareCntr [] OTHER -> Little
MCHost(v) == CASE v = "full" -> FullHost [] v = "bare" -> BareHost [] OTHER -> Little

(* Names that some tree has, names that are emulated, one that is absent.   *)
AllNames(v, path) ==
    Children(MCCntr(v), path) \cup Children(MCHost(v), path) \cup {"absent"}
        \cup ListEmulated(LookupHandler(path), path)
        \cup {g.path[Len(path) + 1] :
                g \in {h \in DefaultHandlers : Len(h.path) > Len(path) /\ Within(path, h.path)}}

MCWalkers(v) == CASE v \in {"syscalls", "paths"} -> {} [] v = "two readers" -> {r1, r2} [] OTHER -> {r1}

MCStarts(v, r) == IF v # "two readers" THEN {<<>>} ELSE IF r = r1 THEN {PS} ELSE {Append(SDV, "net")}
MCNames(v, path) == IF v = "two readers" THEN {} ELSE AllNames(v, path)

MCClients == {t1, t2, r1, r2}
MCSysboxfsMounts == {<<"proc", "sys">>, <<"proc", "uptime">>, <<"sys", "kernel">>}
MCNamePrefixes == {<<"random", "randomize_va_space">>}
=============================================================================
