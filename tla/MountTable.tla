------------------------------ MODULE MountTable ------------------------------
(***************************************************************************)
(* The mount table of a mount namespace and what mount(2) and umount2(2) do *)
(* to it: the part of the kernel that seccomp/mount.go, seccomp/umount.go   *)
(* and the nsenter agent drive.                                             *)
(*                                                                          *)
(* A path is a sequence of names.  A table is the sequence of its mounts in *)
(* the order of /proc/<pid>/mountinfo; (fs, root) stands for the filesystem *)
(* instance, its source and the directory of it that is mounted.  MaxMounts *)
(* plays the part of the kernel's limit on mounts: a call that would go     *)
(* over it fails.                                                           *)
(***************************************************************************)
EXTENDS Integers, FiniteSets, SequencesExt

CONSTANTS Dirs,       \* the directories of the root filesystem
          Entries,    \* the entries of a procfs and of a sysfs to mount on
          MaxMounts   \* the kernel's limit on mounts

Failed == <<>>        \* the result of a call that returns an error

MountAt(ms, p) == {m \in Range(ms) : m.mp = p}
Root(ms) == CHOOSE m \in Range(ms) : m.parent = 0
Children(ms, m) == {k \in Range(ms) : k.parent = m.id}

RECURSIVE Top(_, _, _)
Top(ms, m, p) ==      \* the mount on top of m at p
    LET over == {k \in Children(ms, m) : k.mp = p}
    IN  IF over = {} THEN m ELSE Top(ms, CHOOSE k \in over : TRUE, p)

\* The mount a path walk ends in.
Resolve(ms, p) ==
    FoldLeftDomain(LAMBDA m, i : Top(ms, m, SubSeq(p, 1, i)), Root(ms), p)

Below(p, q) == SubSeq(q, Len(p) + 1, Len(q))     \* q seen from its prefix p

Exists(ms, p) ==
    LET m == Resolve(ms, p)
        rel == Below(m.mp, p)
    IN  \/ rel = <<>>
        \/ m.fs = "rootfs" /\ p \in Dirs
        \/ m.fs \in DOMAIN Entries /\ m.root = <<>> /\ Len(rel) = 1 /\ rel[1] \in Entries[m.fs]

IsMounted(ms, p) == Resolve(ms, p).mp = p

RECURSIVE Tree(_, _)
Tree(ms, m) == {m} \union UNION {Tree(ms, k) : k \in Children(ms, m)}

\* Identifiers are handed out lowest first and reused.
FreeIds(ms) == SetToSortSeq((1..MaxMounts) \ {m.id : m \in Range(ms)}, <)

NewMount(ms, fs, tgt, ro) ==
    IF ~Exists(ms, tgt) \/ FreeIds(ms) = <<>> THEN Failed
    ELSE Append(ms, [id |-> FreeIds(ms)[1], parent |-> Resolve(ms, tgt).id, mp |-> tgt,
                     fs |-> fs, root |-> <<>>, ro |-> ro])

\* A bind mount copies the mount the source lies in and, when recursive, what
\* is mounted below the source.
BindMount(ms, src, tgt, rec) ==
    LET s == Resolve(ms, src)
        under == SelectSeq(ms, LAMBDA m : /\ m \in Tree(ms, s) \ {s}
                                          /\ IsPrefix(src, m.mp) /\ rec)
        old == <<s>> \o under
        ids == FreeIds(ms)
        NewId(id) == ids[CHOOSE i \in DOMAIN old : old[i].id = id]
        copies == [i \in DOMAIN old |->
            IF i = 1 THEN [s EXCEPT !.id = ids[1], !.parent = Resolve(ms, tgt).id,
                                    !.mp = tgt, !.root = s.root \o Below(s.mp, src)]
            ELSE [old[i] EXCEPT !.id = ids[i], !.parent = NewId(old[i].parent),
                                !.mp = tgt \o Below(src, old[i].mp)]]
    IN  IF ~Exists(ms, src) \/ ~Exists(ms, tgt) \/ Len(ids) < Len(old) THEN Failed
        ELSE ms \o copies

MoveMount(ms, src, tgt) ==
    LET s == Resolve(ms, src)
        tree == Tree(ms, s)
        Moved(m) == IF m = s THEN [m EXCEPT !.mp = tgt, !.parent = Resolve(ms, tgt).id]
                    ELSE IF m \in tree THEN [m EXCEPT !.mp = tgt \o Below(src, m.mp)]
                    ELSE m
    IN  IF \/ ~IsMounted(ms, src) \/ ~Exists(ms, tgt)
           \/ s = Root(ms) \/ Resolve(ms, tgt) \in tree THEN Failed
        ELSE [i \in DOMAIN ms |-> Moved(ms[i])]

Remount(ms, tgt, ro) ==
    LET s == Resolve(ms, tgt)
    IN  IF ~IsMounted(ms, tgt) THEN Failed
        ELSE [i \in DOMAIN ms |-> IF ms[i] = s THEN [s EXCEPT !.ro = ro] ELSE ms[i]]

Umount(ms, tgt) ==
    LET s == Resolve(ms, tgt)
    IN  IF ~IsMounted(ms, tgt) \/ s = Root(ms) \/ Children(ms, s) # {} THEN Failed
        ELSE Remove(ms, s)
================================================================================
