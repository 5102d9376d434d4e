---------------------------- MODULE MCContainerDB ----------------------------
(* Instances of ContainerDB and FuseNodes for TLC.                          *)
EXTENDS FuseNodes, TLC

Symmetry == Permutations(Ids) \cup Permutations(Netns) \cup Permutations(Objs)
                \cup Permutations(Callers)

(* A struct nothing points to is garbage: its fields do not matter.         *)
(* Nor does a creation time, which no guard and no property reads.          *)
Live == <<idTable, netnsTable, serversMap, openFds, unreg, mode, node,
          [o \in {p \in Objs : Reachable(p)} |->
             [cntr[o] EXCEPT !.ctime = FALSE]]>>

(* Without, against the filter of the standard module.                      *)
ASSUME WithoutFilters ==
    \A list \in BoundedSeq(1..3, 4), S \in SUBSET (1..3) :
        Without(list, S) = SelectSeq(list, LAMBDA p : p \notin S)

Mode(faults, orderly, getattr) == [faults |-> faults, orderly |-> orderly, getattr |-> getattr]
MCModes == {Mode(TRUE, TRUE, FALSE), Mode(FALSE, FALSE, FALSE), Mode(TRUE, TRUE, TRUE)}
MCSharedModes == {Mode(FALSE, TRUE, FALSE)}
=============================================================================
