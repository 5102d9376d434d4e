------------------------------ MODULE Handlers ------------------------------
(***************************************************************************)
(* The handlers of the emulated file trees (handler/implementations) and    *)
(* the registry that routes a path to one of them (handler/handlerDB.go).   *)
(*                                                                          *)
(* A path is a sequence of names.  A handler is [path, key, res, rest,      *)
(* open, read, write, list]: its mountpoint; whether EmuResourceMap is      *)
(* searched for the name of the node or for its path relative to the        *)
(* handler; the map; who serves nodes outside the map: "pass" the           *)
(* pass-through handler in the namespaces of the container, "host" the      *)
(* node itself on the host, "net" the former below net/ and the latter      *)
(* elsewhere; and what its methods do with a node, [emu, rest] for one in   *)
(* the map and for another.  A method does it "itself" (nothing is read,    *)
(* written or opened), on the "host", by "pass", on the data "cntr" that is *)
(* kept for the container (CntrData's subject), or fails with an errno.     *)
(***************************************************************************)
EXTENDS Paths, FiniteSets

CONSTANT NamePrefixes   \* pairs of different names, the first a prefix of the second

(* EmuResource: a directory, a file, a file that Open() refuses to open for *)
(* writing.  isDir is what Lookup() says in FisDir.                         *)
DirEmuResource == [kind |-> "dir", isDir |-> TRUE, guarded |-> FALSE]
FileEmuResource == [kind |-> "file", isDir |-> FALSE, guarded |-> FALSE]
GuardedFile == [FileEmuResource EXCEPT !.guarded = TRUE]
DirWithoutFisDir == [DirEmuResource EXCEPT !.isDir = FALSE]

EmuFiles(names) == [k \in {<<n>> : n \in names} |-> FileEmuResource]
Op(emu, rest) == [emu |-> emu, rest |-> rest]
Pass == Op("pass", "pass")
Itself == Op("itself", "itself")
Kept == Op("cntr", "pass")

(* ReadDirAll(): which emulated nodes come first ("none", "all" of the map, *)
(* those right below the "dir"), who lists the others, and whether its      *)
(* failure is one.                                                          *)
List(emu, rest, strict) == [emu |-> emu, rest |-> rest, strict |-> strict]
ListPass == List("none", "pass", TRUE)

(* A handler of /proc/sys/... most of whose nodes are passed through.       *)
ProcSysLike(path, res, open, list) ==
    [path |-> <<"proc", "sys">> \o path, key |-> "name", res |-> res, rest |-> "pass",
     open |-> open, read |-> Kept, write |-> Kept, list |-> list]
-----------------------------------------------------------------------------
Root_Handler ==
    [path |-> <<>>, key |-> "name", res |-> <<>>, rest |-> "host", open |-> Itself,
     read |-> Itself, write |-> Itself, list |-> List("none", "none", FALSE)]

ProcUptime_Handler ==
    [path |-> <<"proc", "uptime">>, key |-> "rel", res |-> [k \in {<<>>} |-> GuardedFile],
     rest |-> "none", open |-> Itself, read |-> Itself, write |-> Itself,
     list |-> List("none", "none", FALSE)]

ProcSwaps_Handler ==
    [path |-> <<"proc", "swaps">>, key |-> "rel", res |-> [k \in {<<>>} |-> GuardedFile],
     rest |-> "none", open |-> Itself, read |-> Itself, write |-> Itself,
     list |-> List("none", "none", FALSE)]

ProcSys_Handler ==
    [path |-> <<"proc", "sys">>, key |-> "rel", res |-> [k \in {<<>>} |-> DirEmuResource],
     rest |-> "pass", open |-> Pass, read |-> Pass, write |-> Pass, list |-> ListPass]

ProcSysFs_Handler ==
    ProcSysLike(<<"fs">>,
                EmuFiles({"file-max", "nr_open", "protected_hardlinks", "protected_symlinks"}),
                Op("itself", "pass"), ListPass)

ProcSysVm_Handler ==
    ProcSysLike(<<"vm">>, EmuFiles({"overcommit_memory", "mmap_min_addr"}), Op("itself", "pass"), ListPass)

(* (The shm* sysctls are passed through with fewer namespaces.)             *)
ProcSysKernel_Handler ==
    LET files == {"domainname", "hostname", "kptr_restrict", "dmesg_restrict", "panic",
                  "panic_on_oops", "printk", "sysrq", "pid_max"}
        guarded == {"ngroups_max", "cap_last_cap"}
    IN  ProcSysLike(<<"kernel">>,
                    [k \in {<<n>> : n \in files \cup guarded} |->
                        IF Head(k) \in guarded THEN GuardedFile ELSE FileEmuResource],
                    Op("itself", "pass"), ListPass)

ProcSysKernelRandom_Handler ==
    [ProcSysLike(<<"kernel", "random">>, EmuFiles({"uuid"}), Itself, ListPass)
        EXCEPT !.read = Pass, !.write = Op("EPERM", "pass")]

ProcSysKernelYama_Handler ==
    ProcSysLike(<<"kernel", "yama">>, EmuFiles({"ptrace_scope"}), Itself, ListPass)

ProcSysNetCore_Handler ==
    ProcSysLike(<<"net", "core">>, EmuFiles({"default_qdisc", "somaxconn"}), Itself,
                List("all", "pass", FALSE))

ProcSysNetIpv4_Handler ==
    [ProcSysLike(<<"net", "ipv4">>, EmuFiles({"ping_group_range"}), Itself, ListPass)
        EXCEPT !.read = Pass, !.write = Pass]

ProcSysNetIpv4Vs_Handler ==
    ProcSysLike(<<"net", "ipv4", "vs">>,
                EmuFiles({"conntrack", "conn_reuse_mode", "expire_nodest_conn",
                          "expire_quiescent_template"}),
                Itself, List("all", "pass", FALSE))

ProcSysNetIpv4Neigh_Handler ==
    LET thresholds == {<<"default", n>> : n \in {"gc_thresh1", "gc_thresh2", "gc_thresh3"}}
    IN  [path |-> <<"proc", "sys", "net", "ipv4", "neigh">>, key |-> "rel",
         res |-> [k \in {<<"default">>} \cup thresholds |->
                     IF k = <<"default">> THEN DirEmuResource ELSE FileEmuResource],
         rest |-> "pass", open |-> Itself, read |-> Op("cntr", "itself"),
         write |-> Op("cntr", "itself"), list |-> List("dir", "pass", FALSE)]

ProcSysNetNetfilter_Handler ==
    ProcSysLike(<<"net", "netfilter">>,
                EmuFiles({"nf_conntrack_max", "nf_conntrack_generic_timeout",
                          "nf_conntrack_tcp_be_liberal", "nf_conntrack_tcp_timeout_established",
                          "nf_conntrack_tcp_timeout_close_wait"}),
                Itself, List("dir", "pass", FALSE))

ProcSysNetUnix_Handler ==
    ProcSysLike(<<"net", "unix">>, EmuFiles({"max_dgram_qlen"}), Op("itself", "pass"),
                List("dir", "pass", FALSE))

(* Slip: Lookup() marks the emulated directories in FisDir.                 *)
SysKernelMarked ==
    [path |-> <<"sys", "kernel">>, key |-> "name",
     res |-> [k \in {<<n>> : n \in {"config", "debug", "tracing", "security"}} |-> DirEmuResource],
     rest |-> "host", open |-> Op("itself", "host"), read |-> Op("itself", "host"), write |-> Itself,
     list |-> List("dir", "host", FALSE)]

(* Lookup() leaves FisDir unset: the mode alone says "directory".           *)
SysKernel_Handler ==
    [path |-> <<"sys", "kernel">>, key |-> "name",
     res |-> [k \in {<<n>> : n \in {"config", "debug", "tracing", "security"}} |-> DirWithoutFisDir],
     rest |-> "host", open |-> Op("itself", "host"), read |-> Op("itself", "host"), write |-> Itself,
     list |-> List("dir", "host", FALSE)]

(* passthruNodes is {"net"}.                                                *)
SysDevicesVirtual_Handler ==
    [path |-> <<"sys", "devices", "virtual">>, key |-> "rel",
     res |-> [k \in {<<>>, <<"dmi">>} |-> DirEmuResource],
     rest |-> "net", open |-> Itself, read |-> Op("itself", "net"), write |-> Op("itself", "net"),
     list |-> List("dir", "net", TRUE)]

SysDevicesVirtualDmi_Handler ==
    [path |-> <<"sys", "devices", "virtual", "dmi">>, key |-> "rel",
     res |-> [k \in {<<>>, <<"id">>} |-> DirEmuResource],
     rest |-> "host", open |-> Itself, read |-> Itself, write |-> Itself,
     list |-> List("dir", "host", FALSE)]

SysDevicesVirtualDmiId_Handler ==
    [path |-> <<"sys", "devices", "virtual", "dmi", "id">>, key |-> "rel",
     res |-> [k \in {<<>>, <<"product_uuid">>} |-> IF k = <<>> THEN DirEmuResource ELSE GuardedFile],
     rest |-> "host", open |-> Op("itself", "host"), read |-> Op("itself", "host"), write |-> Itself,
     list |-> List("dir", "host", FALSE)]

SysModuleNfconntrackParameters_Handler ==
    [path |-> <<"sys", "module", "nf_conntrack", "parameters">>, key |-> "name",
     res |-> EmuFiles({"hashsize"}), rest |-> "host", open |-> Itself,
     read |-> Op("cntr", "host"), write |-> Op("cntr", "host"), list |-> List("dir", "host", FALSE)]
-----------------------------------------------------------------------------
DefaultHandlers ==
    {Root_Handler, ProcUptime_Handler, ProcSwaps_Handler, ProcSys_Handler, ProcSysFs_Handler,
     ProcSysKernel_Handler, ProcSysKernelRandom_Handler, ProcSysKernelYama_Handler,
     ProcSysNetCore_Handler, ProcSysNetIpv4_Handler, ProcSysNetIpv4Vs_Handler,
     ProcSysNetIpv4Neigh_Handler, ProcSysNetNetfilter_Handler, ProcSysNetUnix_Handler,
     ProcSysVm_Handler, SysKernel_Handler, SysDevicesVirtual_Handler,
     SysDevicesVirtualDmi_Handler, SysDevicesVirtualDmiId_Handler,
     SysModuleNfconntrackParameters_Handler}

(* The radix tree compares strings: the last name of a handler's path may   *)
(* end within a name of the node's path.                                    *)
StringPrefix(p, path) ==
    \/ Within(p, path)
    \/ /\ Len(p) \in 1..Len(path)
       /\ Within(Dir(p), path)
       /\ <<Name(p), path[Len(p)]>> \in NamePrefixes

(* LookupHandler(): the longest prefix.                                     *)
LookupHandler(path) ==
    LET serving == {h \in DefaultHandlers : StringPrefix(h.path, path)}
    IN  CHOOSE h \in serving : \A g \in serving : Len(g.path) <= Len(h.path)

Rel(h, path) == SubSeq(path, Len(h.path) + 1, Len(path))
Resource(h, path) == IF h.key = "rel" THEN Rel(h, path)
                     ELSE IF path = <<>> THEN <<>> ELSE <<Name(path)>>
IsEmulated(h, path) == Resource(h, path) \in DOMAIN h.res

(* passthruNodes                                                            *)
Whose(rest, h, path) == IF rest # "net" THEN rest
                        ELSE IF Rel(h, path) # <<>> /\ Head(Rel(h, path)) = "net" THEN "pass"
                        ELSE "host"

(* The methods: who does the work for a node.                               *)
LookupBy(h, path) == IF IsEmulated(h, path) THEN "itself" ELSE Whose(h.rest, h, path)
LookupInfo(h, path) == h.res[Resource(h, path)]

MethodBy(h, path, op) == IF IsEmulated(h, path) THEN op.emu
                         ELSE IF op.rest = "net"
                              THEN IF Whose("net", h, path) = "pass" THEN "pass" ELSE "itself"
                         ELSE op.rest

OpenBy(h, path, writing) ==
    IF IsEmulated(h, path) /\ LookupInfo(h, path).guarded /\ writing THEN "EACCES"
    ELSE MethodBy(h, path, h.open)

(* Slip: net/ is listed on the host.                                        *)
ListByHost(h, path) == IF h.list.rest = "net" THEN "host" ELSE h.list.rest

(* passthruNodes are listed without the emulated ones.                      *)
ListBy(h, path) == Whose(h.list.rest, h, path)
ListEmulated(h, path) ==
    IF h.list.rest = "net" /\ ListBy(h, path) = "pass" THEN {}
    ELSE CASE h.list.emu = "none" -> {}
           [] h.list.emu = "all" -> {Name(k) : k \in DOMAIN h.res \ {<<>>}}
           [] h.list.emu = "dir" -> {Name(k) : k \in {j \in DOMAIN h.res \ {<<>>} : Dir(j) = Rel(h, path)}}

(* ReadLink() follows Lookup(); "itself" returns an empty link.             *)
ReadLinkBy(h, path) == IF h.rest = "none" \/ h.path = <<>> THEN "itself" ELSE Whose(h.rest, h, path)
=============================================================================
