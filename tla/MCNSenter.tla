------------------------------ MODULE MCNSenter ------------------------------
(* Instances of NSenter for TLC.                                            *)
EXTENDS NSenter, TLC

(* No agent touches a file of sysbox-fs.                                    *)
Flat == [r \in Requests |-> None]

(* The agent of one request causes the other.                               *)
CONSTANTS outer, inner
Nested == [r \in Requests |-> IF r = outer THEN inner ELSE None]
=============================================================================
