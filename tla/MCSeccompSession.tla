--------------------------- MODULE MCSeccompSession ---------------------------
(* Instances of SeccompSession for TLC: container c1 with its init process  *)
(* and processes that exec into it, container c2 with its init process.     *)
EXTENDS SeccompSession, TLC

CONSTANTS c1, c2, i1, e1, e2, i2

MCCntrOf == [s \in Sessions |-> IF s = i2 THEN c2 ELSE c1]
MCInitOf == [c \in Cntrs |-> IF c = c1 THEN i1 ELSE i2]
MCPidOf == [s \in Sessions |-> CASE s = i1 -> 11 [] s = i2 -> 12 [] OTHER -> 13]
(* e1 and e2 have the same pid, one after the other.                        *)
MCOpens(policy, kernel) == CASE ~policy -> {i1, i2}
                             [] policy /\ ~kernel -> {i1, e1, i2}
                             [] policy /\ kernel -> {i1, e1, e2}
MCInitPidFd == [c \in Cntrs |-> IF c = c1 THEN 1 ELSE 2]
=============================================================================
