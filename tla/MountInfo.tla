------------------------------- MODULE MountInfo -------------------------------
(***************************************************************************)
(* The questions sysbox-fs asks of a parsed mountinfo file                  *)
(* (mount/infoParser.go, mount/helper.go, the immutability getters of       *)
(* state/container.go).  A parser object is a record of the table it read,  *)
(* in file order, and of the filesystems that were read-only at the         *)
(* superblock level (VfsOptions).                                           *)
(***************************************************************************)
EXTENDS MountTable

CONSTANTS ProcMounts,     \* mountHelper.procMounts, sorted
          SysMounts,      \* mountHelper.sysMounts, sorted
          ProcRoPaths,    \* container.procRoPaths, those that exist
          ProcMaskPaths   \* container.procMaskPaths, those that exist

ProcPath == <<"proc">>
SysPath == <<"sys">>
None == [id |-> 0]

\* mpInfo: of several mounts at one mountpoint the last line parsed is kept.
GetInfo(mip, p) ==
    LET i == SelectLastInSeq(mip.ms, LAMBDA m : m.mp = p)
    IN  IF i = 0 THEN None ELSE mip.ms[i]

LookupByMountID(mip, id) ==
    LET i == SelectInSeq(mip.ms, LAMBDA m : m.id = id)
    IN  IF i = 0 THEN None ELSE mip.ms[i]

GetParentMount(mip, info) == LookupByMountID(mip, info.parent)

isSysboxfsBaseMount(info) == info.fs \in {"proc", "sysfs"} /\ info.root = <<>>

\* strings.HasSuffix(mp, mountpoint) for a member mp of the set, as in "/proc/sys".
isMountpointUnder(rel, base, names) ==
    \E n \in Range(names) : IsSuffix(rel, base \o <<n>>)

isSysboxfsSubMountOf(info, baseInfo) ==
    LET rel == Below(baseInfo.mp, info.mp)
    IN  /\ info.parent = baseInfo.id
        /\ \/ /\ baseInfo.fs = "proc"
              /\ \E set \in {ProcMounts, ProcRoPaths, ProcMaskPaths} :
                     isMountpointUnder(rel, ProcPath, set)
           \/ baseInfo.fs = "sysfs" /\ isMountpointUnder(rel, SysPath, SysMounts)

isSysboxfsSubMount(mip, info) ==
    LET parent == GetParentMount(mip, info)
    IN  parent # None /\ isSysboxfsBaseMount(parent) /\ isSysboxfsSubMountOf(info, parent)

IsSysboxfsBaseMount(mip, p) ==
    GetInfo(mip, p) # None /\ isSysboxfsBaseMount(GetInfo(mip, p))

IsSysboxfsSubmount(mip, p) ==
    GetInfo(mip, p) # None /\ isSysboxfsSubMount(mip, GetInfo(mip, p))

\* IsSysboxfsRoSubmount and IsSysboxfsMaskedSubmount, for the one or the other
\* list of procfs paths.
IsSysboxfsSubmountIn(mip, p, names) ==
    /\ IsSysboxfsSubmount(mip, p)
    /\ LET base == GetParentMount(mip, GetInfo(mip, p))
       IN  base.fs = "proc" /\ isMountpointUnder(Below(base.mp, p), ProcPath, names)

\* The values of mpInfo.
Infos(mip) == {GetInfo(mip, p) : p \in {m.mp : m \in Range(mip.ms)}}

GetSysboxfsSubMounts(mip, p) ==
    {info.mp : info \in {k \in Infos(mip) : isSysboxfsSubMountOf(k, GetInfo(mip, p))}}

HasNonSysboxfsSubmount(mip, p) ==
    \E info \in Infos(mip) : /\ info.parent = GetInfo(mip, p).id
                             /\ ~isSysboxfsSubMountOf(info, GetInfo(mip, p))

VfsRo(mip, info) == info # None /\ info.fs \in mip.sbRo

-----------------------------------------------------------------------------
(* The mounts the container started with, c.mountInfoParser.               *)

IsRootMountID(cmip, id) == id = GetInfo(cmip, <<>>).id
IsImmutableMountID(cmip, id) == LookupByMountID(cmip, id) # None
IsImmutableRoMountID(cmip, id) ==
    LookupByMountID(cmip, id) # None /\ LookupByMountID(cmip, id).ro

\* IsRoBindMount decides by the first other mount of the same directory.
IsImmutableRoBindMount(cmip, info) ==
    LET i == SelectInSeq(cmip.ms, LAMBDA m : /\ m.id # info.id
                                             /\ m.fs = info.fs /\ m.root = info.root)
    IN  i # 0 /\ cmip.ms[i].ro
================================================================================
