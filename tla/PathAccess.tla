----------------------------- MODULE PathAccess -----------------------------
(***************************************************************************)
(* process/process.go PathAccess(), ResolveProcSelf() and checkPerm(): how  *)
(* the seccomp tracer walks a path on behalf of the process that issued a   *)
(* syscall.  The walk runs in sysbox-fs' own mount namespace and reaches    *)
(* the files of the process through the magic links /proc/<pid>/root and    *)
(* /proc/<pid>/cwd ("procroot" and "proccwd" in the code).                  *)
(*                                                                          *)
(* A path is [abs, comps]: comps are the parts between its slashes, "" for  *)
(* an empty one (a trailing or a doubled slash).  A location is a sequence  *)
(* of names below the root of the process.  A file tree maps locations to   *)
(* nodes [kind, own, grp, u, g, o, abs, to]; "to" is the target of a link,  *)
(* a sequence of names that passes through no other link.                   *)
(***************************************************************************)
EXTENDS Paths

CONSTANT SymlinkMax    \* domain.SymlinkMax

(* The strings the walk builds: /proc/<pid>/root/rel and /proc/<pid>/cwd/rel. *)
ProcRoot == [base |-> "root", rel |-> <<>>]
ProcCwd == [base |-> "cwd", rel |-> <<>>]
EmptyPath == [abs |-> FALSE, comps |-> <<>>]

(* The two magic links are symlinks that anybody may follow.                *)
MagicLink(to) == [kind |-> "link", own |-> "root", grp |-> "root", abs |-> TRUE, to |-> to,
                  u |-> {"r", "w", "x"}, g |-> {"r", "w", "x"}, o |-> {"r", "w", "x"}]

Location(p, cur) == IF cur.base = "root" THEN cur.rel ELSE p.cwd \o cur.rel

Exists(p, fs, cur) == cur \in {ProcRoot, ProcCwd} \/ Location(p, cur) \in DOMAIN fs

Lstat(p, fs, cur) == IF cur = ProcRoot THEN MagicLink(<<>>)
                     ELSE IF cur = ProcCwd THEN MagicLink(p.cwd)
                     ELSE fs[Location(p, cur)]

isSymlink(p, fs, cur) == Lstat(p, fs, cur).kind = "link"
IsDir(p, fs, cur) == Lstat(p, fs, cur).kind = "dir"
-----------------------------------------------------------------------------
(* checkPerm(): owner, group, others, then the two DAC capabilities, each   *)
(* of which suffices.                                                       *)
checkPerm(p, fs, cur, mode, followSymlink) ==
    LET fi == IF followSymlink /\ cur = ProcRoot THEN fs[<<>>] ELSE Lstat(p, fs, cur)
        dir == fi.kind = "dir"
    IN  \/ mode = {}
        \/ fi.own = p.uid /\ mode \subseteq fi.u
        \/ fi.grp \in p.groups /\ mode \subseteq fi.g
        \/ mode \subseteq fi.o
        \/ /\ "CAP_DAC_OVERRIDE" \in p.caps
           /\ dir \/ "x" \notin mode \/ "x" \in fi.u \cup fi.g \cup fi.o
        \/ /\ "CAP_DAC_READ_SEARCH" \in p.caps
           /\ IF dir THEN "w" \notin mode ELSE mode = {"r"}

(* filepath.Dir(), never above the root of the process.                     *)
Parent(cur) == IF cur.base = "root" /\ cur.rel # <<>>
               THEN [cur EXCEPT !.rel = Dir(@)]
               ELSE ProcRoot

(* Slip: a relative link counts from the root of the process.               *)
TargetFromRoot(cur, link) == [base |-> "root", rel |-> link.to]

(* One turn of the loop that follows links; w is the walk.                  *)
Target(cur, link) == IF link.abs THEN [base |-> "root", rel |-> link.to]
                     ELSE [cur EXCEPT !.rel = Dir(@) \o link.to]

MoveTo(p, fs, w, to) ==
    IF to = ProcRoot THEN [w EXCEPT !.cur = to, !.symlink = FALSE]
    ELSE IF ~Exists(p, fs, to) THEN [w EXCEPT !.err = "ENOENT"]
    ELSE [w EXCEPT !.cur = to,
                   !.symlink = isSymlink(p, fs, to),
                   !.isDir = IsDir(p, fs, to),
                   !.linkCnt = IF isSymlink(p, fs, to) THEN @ + 1 ELSE @]

ReadLink(p, fs, w) ==
    IF w.linkCnt >= SymlinkMax THEN [w EXCEPT !.err = "ELOOP"]
    ELSE MoveTo(p, fs, w, Target(w.cur, Lstat(p, fs, w.cur)))

(* The loop: every turn but the last counts a link, so that it ends.        *)
FollowLinks(p, fs, w) ==
    LET turn[k \in 0..SymlinkMax + 1] ==
            IF k = 0 THEN w
            ELSE LET v == turn[k - 1]
                 IN  IF v.err = "none" /\ v.symlink THEN ReadLink(p, fs, v) ELSE v
    IN  turn[SymlinkMax + 1]

(* The path without the prefix it was walked with; the root becomes "".     *)
Resolved(cur) ==
    IF cur = ProcRoot THEN EmptyPath
    ELSE IF cur = ProcCwd THEN [abs |-> TRUE, comps |-> <<"proc", "pid", "cwd">>]
    ELSE [abs |-> cur.base = "root", comps |-> cur.rel]

NextComponent(cur, c) == IF c = ".." THEN Parent(cur)
                         ELSE IF c = "." THEN cur
                         ELSE [cur EXCEPT !.rel = Append(@, c)]

Fails(w, err) == [w EXCEPT !.err = err]

(* The turn of the walk for one component: where it leads, then its links,  *)
(* then permission.  e is [p, fs, mode, followSymlink].                     *)
Permit(e, w, final) ==
    IF ~checkPerm(e.p, e.fs, w.cur, IF final THEN e.mode ELSE {"x"}, e.followSymlink)
    THEN Fails(w, "EACCES")
    ELSE IF final THEN [w EXCEPT !.out = Resolved(w.cur)]
    ELSE w

AfterLinks(e, w, final) ==
    IF w.err # "none" THEN w
    ELSE IF ~final /\ ~w.isDir THEN Fails(w, "ENOTDIR")
    ELSE Permit(e, w, final)

AtComponent(e, w, final) ==
    IF ~final /\ ~w.symlink /\ ~w.isDir THEN Fails(w, "ENOTDIR")
    ELSE IF (~final \/ e.followSymlink) /\ w.symlink /\ w.cur # ProcRoot
         THEN AfterLinks(e, FollowLinks(e.p, e.fs, w), final)
    ELSE Permit(e, w, final)

Arrive(e, w, cur, final) ==
    IF ~Exists(e.p, e.fs, cur) THEN Fails(w, "ENOENT")
    ELSE AtComponent(e, [w EXCEPT !.cur = cur, !.symlink = isSymlink(e.p, e.fs, cur),
                                  !.isDir = IsDir(e.p, e.fs, cur)], final)

WalkComponent(e, w, c, final) == IF c = "" THEN w ELSE Arrive(e, w, NextComponent(w.cur, c), final)

(* pathAccess().                                                            *)
Walked(w) == [err |-> w.err, path |-> w.out]

pathAccess(e, path) ==
    LET start == [cur |-> IF path.abs THEN ProcRoot ELSE ProcCwd,
                  symlink |-> FALSE, isDir |-> FALSE, linkCnt |-> 0,
                  err |-> IF path = EmptyPath THEN "ENOENT" ELSE "none",
                  out |-> EmptyPath]
        walk[i \in 0..Len(path.comps)] ==
            IF i = 0 THEN start
            ELSE LET w == walk[i - 1]
                 IN  IF w.err # "none" THEN w ELSE WalkComponent(e, w, path.comps[i], i = Len(path.comps))
    IN  Walked(walk[Len(path.comps)])
-----------------------------------------------------------------------------
(* A path below /proc/self; p.self maps what follows to the target of that  *)
(* link, or to itself where the entry is no link.                           *)
IsProcSelf(path) == path.abs /\ Len(path.comps) > 2 /\ SubSeq(path.comps, 1, 2) = <<"proc", "self">>

(* ResolveProcSelf(): /proc/self becomes /proc/<pid>, and a link there is   *)
(* replaced by its target as long as that is below /proc/self again.        *)
Entry(path) == SubSeq(path.comps, 3, Len(path.comps))

ReadProcSelf(p, s) ==
    IF Entry(s.path) \notin DOMAIN p.self THEN Fails(s, "ENOENT")
    ELSE IF p.self[Entry(s.path)] = s.path
         THEN [s EXCEPT !.path.comps = <<"proc", "pid">> \o Entry(s.path)]
    ELSE [s EXCEPT !.path = p.self[Entry(s.path)]]

LoopCheck(s) == IF s.err = "none" /\ IsProcSelf(s.path) THEN Fails(s, "ELOOP") ELSE s

ResolveProcSelf(p, path) ==
    LET turn[k \in 0..SymlinkMax + 1] ==
            IF k = 0 THEN [err |-> "none", path |-> path]
            ELSE LET s == turn[k - 1]
                 IN  IF s.err = "none" /\ IsProcSelf(s.path) THEN ReadProcSelf(p, s) ELSE s
    IN  LoopCheck(turn[SymlinkMax + 1])

(* PathAccess().                                                            *)
WalkFrom(e, r) == IF r.err # "none" THEN [err |-> "EINVAL", path |-> EmptyPath]
                  ELSE pathAccess(e, r.path)

PathAccess(p, fs, path, mode, followSymlink) ==
    WalkFrom([p |-> p, fs |-> fs, mode |-> mode, followSymlink |-> followSymlink],
             ResolveProcSelf(p, path))

(* What the callers make of the result: relative paths, and so the empty    *)
(* one, are joined with the working directory.                              *)
AbsTarget(p, r) == IF r.path.abs THEN r.path.comps ELSE p.cwd \o r.path.comps
=============================================================================
