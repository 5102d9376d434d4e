------------------------------- MODULE Paths -------------------------------
(***************************************************************************)
(* Paths as sequences of names: filepath.Dir(), filepath.Base() and the     *)
(* question whether a path lies in a directory.                             *)
(***************************************************************************)
EXTENDS Integers, Sequences

Dir(path) == SubSeq(path, 1, Len(path) - 1)
Name(path) == path[Len(path)]
Within(dir, path) == Len(dir) <= Len(path) /\ SubSeq(path, 1, Len(dir)) = dir
=============================================================================
