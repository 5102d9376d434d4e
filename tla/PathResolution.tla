--------------------------- MODULE PathResolution ---------------------------
(***************************************************************************)
(* path_resolution(7): how the kernel resolves a path for a process, on the *)
(* paths, file trees and processes of PathAccess.  The comment on           *)
(* PathAccess() (process/process.go) names it as what is emulated.          *)
(***************************************************************************)
EXTENDS Naturals, Sequences, SequencesExt

CONSTANT SymlinkMax

(* Search permission: the class of the process alone decides, unless it has *)
(* one of the two capabilities.                                             *)
Searchable(p, node) ==
    \/ {"CAP_DAC_OVERRIDE", "CAP_DAC_READ_SEARCH"} \cap p.caps # {}
    \/ "x" \in IF node.own = p.uid THEN node.u
               ELSE IF node.grp \in p.groups THEN node.g
               ELSE node.o

(* From directory "at", with "left" links still allowed.                    *)
RECURSIVE Walk(_, _, _, _, _, _)
Walk(p, fs, at, comps, followLast, left) ==
    IF comps = <<>> THEN [err |-> "none", loc |-> at]
    ELSE LET c == Head(comps)
             rest == Tail(comps)
             next == Append(at, c)
         IN  IF fs[at].kind # "dir" THEN [err |-> "ENOTDIR", loc |-> <<>>]
             ELSE IF ~Searchable(p, fs[at]) THEN [err |-> "EACCES", loc |-> <<>>]
             ELSE IF c \in {"", "."} THEN Walk(p, fs, at, rest, followLast, left)
             ELSE IF c = ".."
                  THEN Walk(p, fs, IF at = <<>> THEN at ELSE Front(at), rest, followLast, left)
             ELSE IF next \notin DOMAIN fs THEN [err |-> "ENOENT", loc |-> <<>>]
             ELSE IF fs[next].kind # "link" \/ (rest = <<>> /\ ~followLast)
                  THEN Walk(p, fs, next, rest, followLast, left)
             ELSE IF left = 0 THEN [err |-> "ELOOP", loc |-> <<>>]
             ELSE Walk(p, fs, IF fs[next].abs THEN <<>> ELSE at,
                       fs[next].to \o rest, followLast, left - 1)

KernelResolve(p, fs, path, followLast) ==
    IF path.comps = <<>> THEN [err |-> "ENOENT", loc |-> <<>>]
    ELSE Walk(p, fs, IF path.abs THEN <<>> ELSE p.cwd, path.comps, followLast, SymlinkMax)
=============================================================================
