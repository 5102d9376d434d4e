------------------------------ MODULE MCCntrData ------------------------------
(* Processes of containers c1 and c2, and a process u4 of c1 in namespaces   *)
(* of its own; a resource of each policy that differs in its control.       *)
EXTENDS CntrData

CONSTANTS u1, u2, u3, u4, c1, c2

MCCntrOf == [u \in Users |-> IF u = u3 THEN c2 ELSE c1]
MCHostValue == [r \in Resources |-> 1]

MCUse(users, r, values) == (users \X {"read"} \X {r} \X {None})
                           \union (users \X {"write"} \X {r} \X values)

\* Two containers raise one limit; one process writes a pass-through file
\* that another reads.
MCUses == MCUse({u1, u3}, "somaxconn", {30, 200})
          \union MCUse({u2}, "panic", {200}) \union MCUse({u1}, "panic", {})
          \union MCUse({u1}, "ip_forward", {1, 200})
          \union MCUse({u4}, "ip_forward", {200}) \union MCUse({u2}, "ip_forward", {})

ASSUME OneWriterHolds == Uses = MCUses => OneWriter

\* Two processes write one pass-through file.
MCUsesWriters == MCUse({u1, u2}, "ip_forward", Values)
=============================================================================
