------------------------------- MODULE Policies -------------------------------
(***************************************************************************)
(* What the handlers under handler/implementations do with a write to each  *)
(* emulated resource: the values they accept and when the value goes on to  *)
(* the host's kernel (the wrCondition handed to writeFs in utils.go).       *)
(* Resources that are in no table go to the pass-through handler.           *)
(*                                                                          *)
(* Values are integers.  Resources whose content is not a number (printk,   *)
(* domainname, hostname) take any value; the queueing disciplines of        *)
(* default_qdisc are numbered in the order of the code's switch.            *)
(***************************************************************************)
EXTENDS Integers, TLC

MaxInt32 == 2147483647

(* accepts: the values Write() lets through.  push: the wrCondition.        *)
Policy(accepts, push) == [accepts |-> accepts, push |-> push]
Private(accepts) == Policy(accepts, "nil")
ReadOnly == Policy({}, "nil")
Raise == Policy(Int, "writeMaxIntToFs")
Share(accepts) == Policy(accepts, "writeToFs")

ProcSysKernel ==
    [r \in {"cap_last_cap", "ngroups_max"} |-> ReadOnly]
    @@ [r \in {"panic", "printk", "panic_on_oops", "domainname", "hostname"}
            |-> Private(Int)]
    @@ "pid_max" :> Private(1..4194304)
    @@ "kptr_restrict" :> Private(0..3)
    @@ "dmesg_restrict" :> Private(0..1)
    @@ "sysrq" :> Private(0..511)

ProcSysKernelYama == "ptrace_scope" :> Private(0..3)

ProcSysFs ==
    [r \in {"file-max", "nr_open"} |-> Raise]
    @@ [r \in {"protected_hardlinks", "protected_symlinks"} |-> Private(0..1)]

ProcSysVm == "overcommit_memory" :> Private(0..2)
             @@ "mmap_min_addr" :> Private(Nat)

ProcSysNetCore == "default_qdisc" :> Share(1..4) @@ "somaxconn" :> Raise

ProcSysNetUnix == "max_dgram_qlen" :> Raise

ProcSysNetNetfilter ==
    [r \in {"nf_conntrack_max", "nf_conntrack_generic_timeout",
            "nf_conntrack_tcp_timeout_established",
            "nf_conntrack_tcp_timeout_close_wait"} |-> Raise]
    @@ "nf_conntrack_tcp_be_liberal" :> Policy(Int, "writeTcpLiberal")

ProcSysNetIpv4Neigh ==
    [r \in {"gc_thresh1", "gc_thresh2", "gc_thresh3"} |-> Private(0..MaxInt32)]

ProcSysNetIpv4Vs ==
    "conntrack" :> Raise
    @@ "conn_reuse_mode" :> Private(0..1)
    @@ [r \in {"expire_nodest_conn", "expire_quiescent_template"}
            |-> Private(-MaxInt32 - 1 .. MaxInt32)]

SysModuleNfconntrackParameters == "hashsize" :> Share(Int)

(* LookupHandler(): the handler of the longest matching path decides.       *)
Emulated ==
    ProcSysKernel @@ ProcSysKernelYama @@ ProcSysFs @@ ProcSysVm
    @@ ProcSysNetCore @@ ProcSysNetUnix @@ ProcSysNetNetfilter
    @@ ProcSysNetIpv4Neigh @@ ProcSysNetIpv4Vs @@ SysModuleNfconntrackParameters

IsEmulated(r) == r \in DOMAIN Emulated
Accepts(r, v) == v \in Emulated[r].accepts
Pushes(r) == Emulated[r].push # "nil"
Raises(r) == IsEmulated(r) /\ Emulated[r].push = "writeMaxIntToFs"

(* The wrCondition of r, asked whether new goes to the kernel over curr.    *)
WrCondition(r, curr, new) ==
    \/ Emulated[r].push = "writeMaxIntToFs" /\ new > curr
    \/ Emulated[r].push = "writeTcpLiberal" /\ new # curr /\ new # 0
    \/ Emulated[r].push = "writeToFs"
=============================================================================
